---- MODULE Spec2Model ----
(***************************************************************************)
(* Configuration validation and resolution engine of the agent CLI:        *)
(*   config_validate.py     v1 validator and manifest validator            *)
(*   config_resolve.py      v1 dispatch resolver and plan-pipeline resolver*)
(*   config_validate_v2.py  v2 validator and manifest override normalizer  *)
(*   config_resolve_v2.py   v2 phase resolver                              *)
(*                                                                         *)
(* Representation.  A Python dict is a function with a finite domain; a    *)
(* missing key is a key outside DOMAIN.  A stage name is the sequence of   *)
(* its "_"-separated words ("codex_test_impl" is <<"codex","test","impl">>)*)
(* so that split("_", 1) is Head/Tail.  A raised ValidationError is the    *)
(* record [ok |-> FALSE, error |-> message].  The candidate documents are  *)
(* well typed (strings where strings are expected, booleans for flags), so *)
(* the isinstance checks of the validators pass on all of them and are not *)
(* repeated here; every other check is.                                    *)
(***************************************************************************)
EXTENDS Integers, Sequences, FiniteSets, TLC

VARIABLES
    pc,          \* position of the command: start, loaded, validated, parsed, done, rejected_*
    cfg,         \* v1 config tree (servants, pipelines) as loaded
    manifest,    \* task manifest document
    args,        \* arguments of the command or of the function being run
    result,      \* outcome of the command: a plan or a validation error; or the function's value
    filt,        \* flag-filter run: input stages, flags, filters applied, output
    cfg2,        \* v2 config tree (skills, servants)
    overrides2,  \* normalised config_v2 overrides of the manifest
    args2,       \* phase / method id / step id of the v2 resolve command
    result2,     \* outcome of the v2 resolve command
    root,        \* config root on disk: directory -> file name -> file content
    out          \* what a command-line run printed, and its exit

vars == <<pc, cfg, manifest, args, result, filt, cfg2, overrides2, args2, result2, root, out>>

\* ------------------------------------------------------------------ values

\* Python None, for optional string values.
None == "None"

\* The empty dict.
EmptyMap == << >>

\* dict.get(k) for string-valued dicts.
Get(m, k) == IF k \in DOMAIN m THEN m[k] ELSE None

\* (dict.get(k) or {}) for dict-valued entries.
GetMap(m, k) == IF k \in DOMAIN m THEN m[k] ELSE EmptyMap

\* (dict.get(k) or []) for list-valued entries.
GetList(m, k) == IF k \in DOMAIN m THEN m[k] ELSE << >>

\* x in list
InList(x, list) == \E i \in DOMAIN list : list[i] = x

\* Python truthiness of an optional string: None and "" are false.
Truthy(s) == s # None /\ s # ""

\* a or b, on optional strings.
Or(a, b) == IF Truthy(a) THEN a ELSE b

Range(list) == {list[i] : i \in DOMAIN list}

Err(msg) == [ok |-> FALSE, error |-> msg]

\* A document without those of the named collection fields that are empty: an
\* omitted optional field.
OmitEmpty(m, keys) == [k \in {x \in DOMAIN m : x \in keys => m[x] # << >>} |-> m[k]]

\* A document without those of the named string fields that are None.
OmitNone(m, keys) == [k \in {x \in DOMAIN m : x \in keys => m[x] # None} |-> m[k]]

\* ------------------------------------------------------------------ constants

SERVANT_NAMES == {"codex", "gemini", "copilot"}

PIPELINE_FLAGS ==
    [impl |-> {"enable_brief", "enable_verify", "enable_review"},
     review |-> {"enable_verify", "enable_review"},
     plan |-> {"enable_stage2_codex", "enable_stage2_gemini", "enable_stage3_cross_review"}]

PIPELINE_OPTIONS ==
    [impl |-> [impl_mode |-> {"safe", "one_shot"}, timeout_mode |-> {"enforce", "wait_done"}],
     review |-> [review_mode |-> {"codex_only", "cross"}, timeout_mode |-> {"enforce", "wait_done"}],
     plan |-> [consolidate_mode |-> {"standard"}, timeout_mode |-> {"enforce", "wait_done"}]]

WRAPPER_DEFAULT_KEYS ==
    [codex |-> {"effort", "timeout_ms", "timeout_mode"},
     gemini |-> {"approval_mode", "sandbox", "timeout_ms", "timeout_mode"},
     copilot |-> {"timeout_ms", "timeout_mode"}]

CODEX_EFFORT_VALUES == {"low", "medium", "high", "xhigh"}
GEMINI_APPROVAL_VALUES == {"default", "auto_edit", "yolo"}
TIMEOUT_MODE_VALUES == {"enforce", "wait_done"}

PLAN_STAGE_TOOL ==
    (<<"stage1">> :> "copilot") @@ (<<"stage2", "codex">> :> "codex")
    @@ (<<"stage2", "gemini">> :> "gemini")
    @@ (<<"stage3", "codex", "review">> :> "codex")
    @@ (<<"stage3", "gemini", "review">> :> "gemini")
    @@ (<<"stage4">> :> "copilot")

DISPATCH_ALLOWED_FLAGS ==
    [impl |-> {"enable_brief", "enable_verify", "enable_review"},
     review |-> {"enable_verify", "enable_review"}]

PURPOSE_NAMES == {"impl", "review", "verify", "plan", "one_shot"}

\* ------------------------------------------------------------------ stage names

\* The words that occur inside a longer word of the stage vocabulary: what
\* Python's substring test (word in role) sees beyond whole words.
InnerWords ==
    [reviewer |-> {"review"}, preverify |-> {"verify"}, debrief |-> {"brief"}]

\* word in token, for one "_"-free word of a stage name.
WordIn(word, token) ==
    token = word \/ (token \in DOMAIN InnerWords /\ word \in InnerWords[token])

\* word in role (a substring test; word holds no "_", so it lies within one
\* "_"-separated word of the role).
SubstringIn(word, role) == \E i \in DOMAIN role : WordIn(word, role[i])

\* "_" in stage
HasUnderscore(stage) == Len(stage) >= 2

\* stage.endswith("_brief")
EndsWithBrief(stage) == HasUnderscore(stage) /\ stage[Len(stage)] = "brief"

\* stage.split("_", 1)[1]
RoleOf(stage) == Tail(stage)

\* config_resolve._stage_tool; None stands for the raised ValidationError.
_stage_tool(stage_name) ==
    IF ~HasUnderscore(stage_name) THEN None
    ELSE IF Head(stage_name) \notin SERVANT_NAMES THEN None
    ELSE Head(stage_name)

\* config_validate._stage_to_tool; returns None for an unknown stage.
_stage_to_tool(stage, pipeline_name) ==
    IF pipeline_name = "plan" THEN Get(PLAN_STAGE_TOOL, stage)
    ELSE IF ~HasUnderscore(stage) THEN None
    ELSE IF Head(stage) \in SERVANT_NAMES THEN Head(stage) ELSE None

\* Faulty variant of _dispatch_stage_purpose: brief and test_design are
\* reclassified in whatever pipeline carries impl_mode one_shot.
_dispatch_stage_purpose_any_pipeline(stage, pipeline, options) ==
    LET role == IF HasUnderscore(stage) THEN RoleOf(stage) ELSE stage
        impl_mode == Get(options, "impl_mode")
    IN  IF role \in {<<"impl">>, <<"test", "impl">>} THEN "impl"
        ELSE IF role \in {<<"verify">>, <<"static", "verify">>} THEN "verify"
        ELSE IF SubstringIn("review", role) THEN "review"
        ELSE IF role = <<"runbook">> THEN "one_shot"
        ELSE IF role \in {<<"brief">>, <<"test", "design">>}
             THEN (IF impl_mode = "one_shot" THEN "one_shot" ELSE "plan")
        ELSE IF pipeline = "impl" THEN "plan" ELSE "review"

\* config_resolve._dispatch_stage_purpose
_dispatch_stage_purpose(stage, pipeline, options) ==
    LET role == IF HasUnderscore(stage) THEN RoleOf(stage) ELSE stage
        impl_mode == Get(options, "impl_mode")
    IN  IF role \in {<<"impl">>, <<"test", "impl">>} THEN "impl"
        ELSE IF role \in {<<"verify">>, <<"static", "verify">>} THEN "verify"
        ELSE IF SubstringIn("review", role) THEN "review"
        ELSE IF role = <<"runbook">> THEN "one_shot"
        ELSE IF role \in {<<"brief">>, <<"test", "design">>}
             THEN (IF pipeline = "impl" /\ impl_mode = "one_shot" THEN "one_shot" ELSE "plan")
        ELSE IF pipeline = "impl" THEN "plan" ELSE "review"

\* "review" in stage, on the whole stage name
_plan_stage_purpose(stage) ==
    IF SubstringIn("review", stage) THEN "review" ELSE "plan"

\* ------------------------------------------------------------------ flag filters

\* flags.get(name) is False
IsFalse(flags, name) == name \in DOMAIN flags /\ flags[name] = FALSE

\* the three list comprehensions' conditions; SelectSeq keeps the order
KeepBrief(s) == ~EndsWithBrief(s)
KeepVerify(s) == ~SubstringIn("verify", RoleOf(s))
KeepReview(s) == ~SubstringIn("review", RoleOf(s))

FilterBrief(stages, flags) ==
    IF IsFalse(flags, "enable_brief") THEN SelectSeq(stages, KeepBrief) ELSE stages

FilterVerify(stages, flags) ==
    IF IsFalse(flags, "enable_verify") THEN SelectSeq(stages, KeepVerify) ELSE stages

FilterReview(stages, flags) ==
    IF IsFalse(flags, "enable_review") THEN SelectSeq(stages, KeepReview) ELSE stages

\* Faulty variant of _apply_dispatch_flag_filters: the review filter reads the
\* original list instead of the list filtered so far.
_apply_dispatch_flag_filters_restart(stages, flags) ==
    IF IsFalse(flags, "enable_review") THEN SelectSeq(stages, KeepReview)
    ELSE FilterVerify(FilterBrief(stages, flags), flags)

_apply_dispatch_flag_filters(stages, flags) ==
    FilterReview(FilterVerify(FilterBrief(stages, flags), flags), flags)

\* ------------------------------------------------------------------ dict helpers

_merge_dict(base, override) ==
    [k \in DOMAIN base \cup DOMAIN override |->
        IF k \in DOMAIN override THEN override[k] ELSE base[k]]

\* Faulty variant of _ensure_keys: unknown keys are let through.
_ensure_keys_open(mapping, allowed) == TRUE

\* config_validate._ensure_keys: TRUE when no key lies outside the allowed set.
_ensure_keys(mapping, allowed) == DOMAIN mapping \subseteq allowed

\* ------------------------------------------------------------------ errors

OK == [ok |-> TRUE]

\* config_validate._die(path, msg): path is the list of the dotted path's segments.
_die(path, msg) == [ok |-> FALSE, path |-> path, error |-> msg]

\* The first failure of a list of checks made in order (fail fast).
FirstErr(rs) ==
    IF \A i \in DOMAIN rs : rs[i].ok THEN OK
    ELSE rs[CHOOSE i \in DOMAIN rs : ~rs[i].ok /\ \A j \in 1..(i - 1) : rs[j].ok]

\* The keys of a dict as a list.  Which of several faulty entries of one dict is
\* reported first depends on the document's key order; the model fixes one.
RECURSIVE KeyList(_)
KeyList(S) ==
    IF S = {} THEN << >>
    ELSE LET k == CHOOSE x \in S : TRUE IN <<k>> \o KeyList(S \ {k})

Check(cond, path, msg) == IF cond THEN OK ELSE _die(path, msg)

\* ------------------------------------------------------------------ v1 validator

SERVANT_ORDER == <<"codex", "gemini", "copilot">>
PIPELINE_ORDER == <<"impl", "review", "plan">>

SERVANT_KEYS ==
    {"default_model", "allowed_models", "wrapper_defaults", "purpose_models", "purpose_efforts"}

PROFILE_KEYS == {"stages", "flags", "options", "stage_models", "stage_efforts"}

\* Faulty variant of DefaultModelAllowed: the membership test is left out.
DefaultModelAllowed_any(default_model, allowed_models) == TRUE

\* config_validate.py line 145: default_model must be one of allowed_models.
DefaultModelAllowed(default_model, allowed_models) == InList(default_model, allowed_models)

\* The per-key checks of wrapper_defaults (config_validate.py lines 160-176).
WrapperValueCheck(servant, wd, key) ==
    LET path == <<"servants", servant, "wrapper_defaults", key>>
    IN  IF key = "timeout_ms" THEN Check(wd[key] >= 0, path, "must be a non-negative integer")
        ELSE IF key = "timeout_mode"
             THEN Check(wd[key] \in TIMEOUT_MODE_VALUES, path, "must be one of timeout modes")
        ELSE IF servant = "codex" /\ key = "effort"
             THEN Check(wd[key] \in CODEX_EFFORT_VALUES, path, "must be one of efforts")
        ELSE IF servant = "gemini" /\ key = "approval_mode"
             THEN Check(wd[key] \in GEMINI_APPROVAL_VALUES, path, "must be one of approval modes")
        ELSE OK

\* One servant node (config_validate.py lines 131-214).
ValidateServant(servants, servant) ==
    LET node == servants[servant]
        base == <<"servants", servant>>
        default_model == Get(node, "default_model")
        allowed_models == GetList(node, "allowed_models")
        wd == GetMap(node, "wrapper_defaults")
        wdKeys == KeyList(DOMAIN wd)
        pm == GetMap(node, "purpose_models")
        pmKeys == KeyList(DOMAIN pm)
        pe == GetMap(node, "purpose_efforts")
        peKeys == KeyList(DOMAIN pe)
    IN  FirstErr(
          << Check(_ensure_keys(node, SERVANT_KEYS), base, "unknown keys"),
             Check(Truthy(default_model), base \o <<"default_model">>, "must be a non-empty string"),
             Check("allowed_models" \in DOMAIN node, base \o <<"allowed_models">>, "must be list"),
             Check(\A i \in DOMAIN allowed_models : Truthy(allowed_models[i]),
                   base \o <<"allowed_models">>, "must be a non-empty string"),
             Check(DefaultModelAllowed(default_model, allowed_models),
                   base \o <<"default_model">>, "must be included in allowed_models"),
             Check("wrapper_defaults" \in DOMAIN node, base \o <<"wrapper_defaults">>, "must be dict"),
             Check(_ensure_keys(wd, WRAPPER_DEFAULT_KEYS[servant]),
                   base \o <<"wrapper_defaults">>, "unknown keys"),
             Check(WRAPPER_DEFAULT_KEYS[servant] \subseteq DOMAIN wd,
                   base \o <<"wrapper_defaults">>, "missing required keys"),
             FirstErr([i \in DOMAIN wdKeys |-> WrapperValueCheck(servant, wd, wdKeys[i])]),
             Check(_ensure_keys(pm, {"impl", "review", "verify", "plan", "one_shot"}),
                   base \o <<"purpose_models">>, "unknown keys"),
             FirstErr([i \in DOMAIN pmKeys |->
                 FirstErr(
                   << Check(Truthy(pm[pmKeys[i]]), base \o <<"purpose_models", pmKeys[i]>>,
                            "must be a non-empty string"),
                      Check(InList(pm[pmKeys[i]], allowed_models),
                            base \o <<"purpose_models", pmKeys[i]>>,
                            "model is not in allowed_models") >>)]),
             Check(servant = "codex" \/ pe = EmptyMap,
                   base \o <<"purpose_efforts">>, "is only supported for codex"),
             Check(_ensure_keys(pe, {"impl", "review", "verify", "plan", "one_shot"}),
                   base \o <<"purpose_efforts">>, "unknown keys"),
             FirstErr([i \in DOMAIN peKeys |->
                 Check(pe[peKeys[i]] \in CODEX_EFFORT_VALUES,
                       base \o <<"purpose_efforts", peKeys[i]>>, "must be one of efforts")]) >>)

\* One profile of one pipeline (config_validate.py lines 239-343).
ValidateProfile(servants, pipeline_name, profile_name, profile) ==
    LET base == <<"pipelines", pipeline_name, "profiles", profile_name>>
        stages == GetList(profile, "stages")
        flags == GetMap(profile, "flags")
        options == GetMap(profile, "options")
        optKeys == KeyList(DOMAIN options)
        stage_models == GetMap(profile, "stage_models")
        smKeys == KeyList(DOMAIN stage_models)
        stage_efforts == GetMap(profile, "stage_efforts")
        seKeys == KeyList(DOMAIN stage_efforts)
    IN  FirstErr(
          << Check(_ensure_keys(profile, PROFILE_KEYS), base, "unknown keys"),
             IF pipeline_name \in {"impl", "review"}
             THEN FirstErr(
                    << Check("stages" \in DOMAIN profile, base \o <<"stages">>, "must be list"),
                       Check(stages # << >>, base \o <<"stages">>, "must not be empty"),
                       Check(\A i \in DOMAIN stages : _stage_to_tool(stages[i], pipeline_name) # None,
                             base \o <<"stages">>, "must start with a known tool prefix") >>)
             ELSE Check(stages = << >>, base \o <<"stages">>,
                        "is not supported for the plan pipeline"),
             Check(_ensure_keys(flags, PIPELINE_FLAGS[pipeline_name]), base \o <<"flags">>,
                   "unknown keys"),
             Check(_ensure_keys(options, DOMAIN PIPELINE_OPTIONS[pipeline_name]),
                   base \o <<"options">>, "unknown keys"),
             FirstErr([i \in DOMAIN optKeys |->
                 Check(optKeys[i] \notin DOMAIN PIPELINE_OPTIONS[pipeline_name]
                       \/ options[optKeys[i]] \in PIPELINE_OPTIONS[pipeline_name][optKeys[i]],
                       base \o <<"options", optKeys[i]>>, "must be one of the option's values")]),
             FirstErr([i \in DOMAIN smKeys |->
                 LET tool == _stage_to_tool(smKeys[i], pipeline_name)
                 IN  FirstErr(
                       << Check(Truthy(stage_models[smKeys[i]]), base \o <<"stage_models">>,
                                "must be a non-empty string"),
                          Check(tool # None, base \o <<"stage_models">>, "unknown stage name"),
                          Check(tool = None
                                \/ InList(stage_models[smKeys[i]], GetList(servants[tool], "allowed_models")),
                                base \o <<"stage_models">>, "model is not allowed for servant") >>)]),
             FirstErr([i \in DOMAIN seKeys |->
                 LET tool == _stage_to_tool(seKeys[i], pipeline_name)
                 IN  FirstErr(
                       << Check(stage_efforts[seKeys[i]] \in CODEX_EFFORT_VALUES,
                                base \o <<"stage_efforts">>, "must be one of efforts"),
                          Check(tool # None, base \o <<"stage_efforts">>, "unknown stage name"),
                          Check(tool = "codex", base \o <<"stage_efforts">>,
                                "is only supported for codex stages") >>)]) >>)

\* One pipeline node (config_validate.py lines 220-343).
ValidatePipeline(servants, pipelines, pipeline_name) ==
    LET pipeline == pipelines[pipeline_name]
        base == <<"pipelines", pipeline_name>>
        default_profile == Get(pipeline, "default_profile")
        profiles == GetMap(pipeline, "profiles")
        names == KeyList(DOMAIN profiles)
    IN  FirstErr(
          << Check(_ensure_keys(pipeline, {"default_profile", "profiles"}), base, "unknown keys"),
             Check(Truthy(default_profile), base \o <<"default_profile">>,
                   "must be a non-empty string"),
             Check("profiles" \in DOMAIN pipeline, base \o <<"profiles">>, "must be dict"),
             Check(profiles # EmptyMap, base \o <<"profiles">>, "must define at least one profile"),
             Check(default_profile \in DOMAIN profiles, base \o <<"default_profile">>,
                   "must match a profile name"),
             FirstErr([i \in DOMAIN names |->
                 ValidateProfile(servants, pipeline_name, names[i], profiles[names[i]])]) >>)

\* config_validate.validate_runtime_config_dict: OK, or the first failure.
validate_runtime_config_dict(c) ==
    FirstErr(
      << Check(_ensure_keys(c, {"version", "servants", "pipelines"}), << >>, "unknown keys"),
         Check(c.version = 1, <<"version">>, "must be 1"),
         Check(_ensure_keys(c.servants, SERVANT_NAMES), <<"servants">>, "unknown keys"),
         FirstErr([i \in DOMAIN SERVANT_ORDER |-> ValidateServant(c.servants, SERVANT_ORDER[i])]),
         Check(_ensure_keys(c.pipelines, {"impl", "review", "plan"}), <<"pipelines">>, "unknown keys"),
         FirstErr([i \in DOMAIN PIPELINE_ORDER |->
             ValidatePipeline(c.servants, c.pipelines, PIPELINE_ORDER[i])]) >>)

\* ------------------------------------------------------------------ manifest validator

\* set().union(*PIPELINE_FLAGS.values())
ALL_FLAGS == UNION {PIPELINE_FLAGS[p] : p \in DOMAIN PIPELINE_FLAGS}

\* allowed_options after the three update() calls: option name -> values.
ALL_OPTIONS ==
    [o \in UNION {DOMAIN PIPELINE_OPTIONS[p] : p \in DOMAIN PIPELINE_OPTIONS} |->
        IF o \in DOMAIN PIPELINE_OPTIONS.plan THEN PIPELINE_OPTIONS.plan[o]
        ELSE IF o \in DOMAIN PIPELINE_OPTIONS.review THEN PIPELINE_OPTIONS.review[o]
        ELSE PIPELINE_OPTIONS.impl[o]]

\* Faulty variant of ManifestModelAllowed: the membership test is left out.
ManifestModelAllowed_unchecked(c, servant, model) == TRUE

\* validate_manifest_extensions lines 458-463: a routing.model entry must name a
\* model of the servant's allowed_models.
ManifestModelAllowed(c, servant, model) ==
    InList(model, c.servants[servant].allowed_models)

_pipeline_name_for_intent(c, intent) ==
    IF intent \in DOMAIN c.pipelines.impl.profiles THEN "impl"
    ELSE IF intent \in DOMAIN c.pipelines.review.profiles THEN "review"
    ELSE None

\* config_validate.validate_manifest_extensions: OK, or the first failure.
validate_manifest_extensions(c, m) ==
    IF m = EmptyMap THEN OK
    ELSE
    LET routing == GetMap(m, "routing")
        model_map == GetMap(routing, "model")
        mmKeys == KeyList(DOMAIN model_map)
        pipeline == GetMap(routing, "pipeline")
        profile == Get(pipeline, "profile")
        flags == GetMap(pipeline, "flags")
        options == GetMap(pipeline, "options")
        optKeys == KeyList(DOMAIN options)
        intent == Get(routing, "intent")
        group == IF intent = None THEN None ELSE _pipeline_name_for_intent(c, intent)
    IN  FirstErr(
          << Check(_ensure_keys(routing, {"intent", "model", "pipeline"}), <<"routing">>,
                   "unknown keys"),
             Check(_ensure_keys(model_map, SERVANT_NAMES), <<"routing", "model">>, "unknown keys"),
             FirstErr([i \in DOMAIN mmKeys |->
                 FirstErr(
                   << Check(Truthy(model_map[mmKeys[i]]), <<"routing", "model", mmKeys[i]>>,
                            "must be a non-empty string"),
                      Check(mmKeys[i] \notin SERVANT_NAMES
                            \/ ManifestModelAllowed(c, mmKeys[i], model_map[mmKeys[i]]),
                            <<"routing", "model", mmKeys[i]>>,
                            "model is not in allowed_models") >>)]),
             IF pipeline = EmptyMap THEN OK
             ELSE FirstErr(
                    << Check(_ensure_keys(pipeline, {"profile", "flags", "options"}),
                             <<"routing", "pipeline">>, "unknown keys"),
                       Check("profile" \notin DOMAIN pipeline \/ Truthy(profile),
                             <<"routing", "pipeline", "profile">>, "must be a non-empty string"),
                       Check(_ensure_keys(flags, ALL_FLAGS), <<"routing", "pipeline", "flags">>,
                             "unknown keys"),
                       Check(_ensure_keys(options, DOMAIN ALL_OPTIONS),
                             <<"routing", "pipeline", "options">>, "unknown keys"),
                       FirstErr([i \in DOMAIN optKeys |->
                           Check(optKeys[i] \notin DOMAIN ALL_OPTIONS
                                 \/ options[optKeys[i]] \in ALL_OPTIONS[optKeys[i]],
                                 <<"routing", "pipeline", "options", optKeys[i]>>,
                                 "must be one of the option's values")]),
                       Check(group = None \/ ~Truthy(profile)
                             \/ profile \in DOMAIN c.pipelines[group].profiles,
                             <<"routing", "pipeline", "profile">>,
                             "profile is not defined in the intent's pipeline") >>) >>)

\* ------------------------------------------------------------------ dispatch resolver

_find_pipeline_for_profile_name(c, profile_name) ==
    IF profile_name \in DOMAIN c.pipelines.impl.profiles THEN "impl"
    ELSE IF profile_name \in DOMAIN c.pipelines.review.profiles THEN "review"
    ELSE None

_profile_data(c, pipeline, profile) ==
    LET profiles == c.pipelines[pipeline].profiles
    IN  IF profile \notin DOMAIN profiles THEN Err("pipeline does not define profile")
        ELSE [ok |-> TRUE,
              stages |-> GetList(profiles[profile], "stages"),
              flags |-> GetMap(profiles[profile], "flags"),
              options |-> GetMap(profiles[profile], "options"),
              stage_models |-> GetMap(profiles[profile], "stage_models"),
              stage_efforts |-> GetMap(profiles[profile], "stage_efforts")]

_resolve_tool_models(c, m) ==
    LET model_override == GetMap(GetMap(m, "routing"), "model")
    IN  [tool \in SERVANT_NAMES \cup DOMAIN model_override |->
            IF tool \in DOMAIN model_override THEN model_override[tool]
            ELSE c.servants[tool].default_model]

\* The checks of _resolve_purpose_models; its value is PurposeModels(c).
PurposeModelsOk(c) ==
    \A tool \in SERVANT_NAMES :
        LET raw == GetMap(c.servants[tool], "purpose_models")
        IN  \A purpose_name \in DOMAIN raw :
                /\ purpose_name \in PURPOSE_NAMES
                /\ InList(raw[purpose_name], c.servants[tool].allowed_models)

PurposeModels(c) == [tool \in SERVANT_NAMES |-> GetMap(c.servants[tool], "purpose_models")]

\* The checks of _resolve_codex_purpose_efforts; its value is CodexPurposeEfforts(c).
CodexPurposeEffortsOk(c) ==
    LET raw == GetMap(c.servants.codex, "purpose_efforts")
    IN  \A purpose_name \in DOMAIN raw :
            purpose_name \in PURPOSE_NAMES /\ raw[purpose_name] \in CODEX_EFFORT_VALUES

CodexPurposeEfforts(c) == GetMap(c.servants.codex, "purpose_efforts")

_resolve_tool_wrapper_defaults(c) ==
    [tool \in SERVANT_NAMES |-> GetMap(c.servants[tool], "wrapper_defaults")]

\* Faulty variant of RequestedIntent: the manifest's intent wins over the plan name.
RequestedIntent_manifest_first(m, plan_name, intent_default) ==
    IF Truthy(Get(GetMap(m, "routing"), "intent")) THEN m.routing.intent
    ELSE IF plan_name # "auto" THEN plan_name
    ELSE intent_default

\* resolve_dispatch lines 186-190: the intent the run resolves.
RequestedIntent(m, plan_name, intent_default) ==
    IF plan_name # "auto" THEN plan_name
    ELSE Or(Get(GetMap(m, "routing"), "intent"), intent_default)

\* Faulty variant of DispatchOptionNames: every pipeline takes the union of the option names.
DispatchOptionNames_union(pipeline) ==
    {"impl_mode", "review_mode", "consolidate_mode", "timeout_mode", "security_mode"}

\* resolve_dispatch lines 214-242: the option names the pipeline supports.
DispatchOptionNames(pipeline) ==
    IF pipeline = "impl" THEN {"impl_mode", "timeout_mode"}
    ELSE {"review_mode", "timeout_mode", "security_mode"}

\* Faulty variant of RemapProfile: impl_mode=safe does not reselect safe_impl.
RemapProfile_no_safe(pipeline, runtime_options, selected_profile) ==
    IF pipeline = "impl"
    THEN (IF Get(runtime_options, "impl_mode") = "one_shot" THEN "one_shot_impl"
          ELSE selected_profile)
    ELSE (IF Get(runtime_options, "review_mode") = "codex_only" THEN "codex_only"
          ELSE IF Get(runtime_options, "review_mode") = "cross" THEN "review_cross"
          ELSE selected_profile)

\* resolve_dispatch lines 223-227 and 238-242: mode-to-profile remapping.
RemapProfile(pipeline, runtime_options, selected_profile) ==
    IF pipeline = "impl"
    THEN (IF Get(runtime_options, "impl_mode") = "safe" THEN "safe_impl"
          ELSE IF Get(runtime_options, "impl_mode") = "one_shot" THEN "one_shot_impl"
          ELSE selected_profile)
    ELSE (IF Get(runtime_options, "review_mode") = "codex_only" THEN "codex_only"
          ELSE IF Get(runtime_options, "review_mode") = "cross" THEN "review_cross"
          ELSE selected_profile)

\* Faulty variant of ProfileAfterRemap: the remapped profile is not reloaded.
ProfileAfterRemap_stale(c, pipeline, first_profile, first_data, selected_profile) ==
    first_data

\* resolve_dispatch lines 244-245: the profile whose data the plan is built from.
ProfileAfterRemap(c, pipeline, first_profile, first_data, selected_profile) ==
    IF selected_profile # first_profile THEN _profile_data(c, pipeline, selected_profile)
    ELSE first_data

\* Faulty variant of StagePlanAccepted: the emptiness test is left out.
StagePlanAccepted_any(stage_plan) == TRUE

\* resolve_dispatch lines 250-251: the stage plan must not be empty.
StagePlanAccepted(stage_plan) == stage_plan # << >>

\* resolve_dispatch lines 266-273: the selected profile's stage_models are checked.
ProfileStageModelsOk(c, profile_stage_models) ==
    \A stage_name \in DOMAIN profile_stage_models :
        /\ _stage_tool(stage_name) # None
        /\ InList(profile_stage_models[stage_name],
                  c.servants[_stage_tool(stage_name)].allowed_models)

\* resolve_dispatch lines 275-285: the selected profile's stage_efforts are checked.
ProfileStageEffortsOk(profile_stage_efforts) ==
    \A stage_name \in DOMAIN profile_stage_efforts :
        /\ _stage_tool(stage_name) = "codex"
        /\ profile_stage_efforts[stage_name] \in CODEX_EFFORT_VALUES

\* Faulty variant of DispatchStageModel: the profile's stage_models entry is
\* consulted before the manifest's routing.model.
DispatchStageModel_profile_first(routing_model_overrides, profile_stage_models, purpose_models, tool_models, tool, stage_name, stage_purpose) ==
    IF Get(profile_stage_models, stage_name) # None THEN profile_stage_models[stage_name]
    ELSE IF Get(routing_model_overrides, tool) # None THEN routing_model_overrides[tool]
    ELSE IF Get(GetMap(purpose_models, tool), stage_purpose) # None
         THEN purpose_models[tool][stage_purpose]
    ELSE tool_models[tool]

\* Faulty variant of DispatchStageModel: the servant's purpose_models entry
\* is consulted before the profile's stage_models.
DispatchStageModel_purpose_first(routing_model_overrides, profile_stage_models, purpose_models, tool_models, tool, stage_name, stage_purpose) ==
    IF Get(routing_model_overrides, tool) # None THEN routing_model_overrides[tool]
    ELSE IF Get(GetMap(purpose_models, tool), stage_purpose) # None
         THEN purpose_models[tool][stage_purpose]
    ELSE IF Get(profile_stage_models, stage_name) # None THEN profile_stage_models[stage_name]
    ELSE tool_models[tool]

\* resolve_dispatch lines 295-301: the model of one stage.
DispatchStageModel(routing_model_overrides, profile_stage_models, purpose_models, tool_models, tool, stage_name, stage_purpose) ==
    IF Get(routing_model_overrides, tool) # None THEN routing_model_overrides[tool]
    ELSE IF Get(profile_stage_models, stage_name) # None THEN profile_stage_models[stage_name]
    ELSE IF Get(GetMap(purpose_models, tool), stage_purpose) # None
         THEN purpose_models[tool][stage_purpose]
    ELSE tool_models[tool]

\* resolve_dispatch lines 312-314 (and 455-457): the timeout mode of one stage.
StageTimeoutMode(timeout_mode_override, wrapper_defaults, tool) ==
    Or(timeout_mode_override, Get(GetMap(wrapper_defaults, tool), "timeout_mode"))

\* Faulty variant of StageEffort: codex's purpose_efforts entry is consulted
\* before the profile's stage_efforts.
StageEffort_purpose_first(profile_stage_efforts, codex_purpose_efforts, wrapper_defaults, stage_name, stage_purpose) ==
    IF Get(codex_purpose_efforts, stage_purpose) # None THEN codex_purpose_efforts[stage_purpose]
    ELSE IF Get(profile_stage_efforts, stage_name) # None THEN profile_stage_efforts[stage_name]
    ELSE Get(GetMap(wrapper_defaults, "codex"), "effort")

\* resolve_dispatch lines 322-326 (and 466-470): the effort of one codex stage.
StageEffort(profile_stage_efforts, codex_purpose_efforts, wrapper_defaults, stage_name, stage_purpose) ==
    IF Get(profile_stage_efforts, stage_name) # None THEN profile_stage_efforts[stage_name]
    ELSE IF Get(codex_purpose_efforts, stage_purpose) # None
         THEN codex_purpose_efforts[stage_purpose]
    ELSE Get(GetMap(wrapper_defaults, "codex"), "effort")

\* The timeout_ms check of lines 304-310 (and 447-453).
TimeoutMsOk(wrapper_defaults, tool) ==
    /\ "timeout_ms" \in DOMAIN GetMap(wrapper_defaults, tool)
    /\ wrapper_defaults[tool].timeout_ms >= 0

\* resolve_dispatch lines 253-346, once the stage plan is known.
DispatchPlan(c, m, pipeline, requested_intent, selected_profile, data, runtime_flags, runtime_options, stage_plan) ==
    LET routing_model_overrides == GetMap(GetMap(m, "routing"), "model")
        tool_models == _resolve_tool_models(c, m)
        purpose_models == PurposeModels(c)
        codex_purpose_efforts == CodexPurposeEfforts(c)
        wrapper_defaults == _resolve_tool_wrapper_defaults(c)
        timeout_mode_override == Get(runtime_options, "timeout_mode")
        purpose(s) == _dispatch_stage_purpose(s, pipeline, runtime_options)
        model(s) == DispatchStageModel(routing_model_overrides, data.stage_models, purpose_models,
                                       tool_models, _stage_tool(s), s, purpose(s))
        mode(s) == StageTimeoutMode(timeout_mode_override, wrapper_defaults, _stage_tool(s))
        effort(s) == StageEffort(data.stage_efforts, codex_purpose_efforts, wrapper_defaults, s,
                                 purpose(s))
        stageErr(s) ==
            IF _stage_tool(s) = None THEN Err("stage must include a known tool prefix")
            ELSE IF ~TimeoutMsOk(wrapper_defaults, _stage_tool(s))
                 THEN Err("wrapper_defaults.timeout_ms must be a non-negative integer")
            ELSE IF mode(s) \notin TIMEOUT_MODE_VALUES THEN Err("resolved timeout_mode is invalid")
            ELSE IF _stage_tool(s) = "codex" /\ effort(s) \notin CODEX_EFFORT_VALUES
                 THEN Err("resolved codex effort is invalid")
            ELSE OK
        stages == Range(stage_plan)
    IN  IF ~PurposeModelsOk(c) THEN Err("purpose_models entry is not allowed")
        ELSE IF ~CodexPurposeEffortsOk(c) THEN Err("purpose_efforts entry is invalid")
        ELSE IF timeout_mode_override # None /\ timeout_mode_override \notin TIMEOUT_MODE_VALUES
             THEN Err("pipeline timeout_mode is invalid")
        ELSE IF ~ProfileStageModelsOk(c, data.stage_models)
             THEN Err("profile stage_models entry is not allowed")
        ELSE IF ~ProfileStageEffortsOk(data.stage_efforts)
             THEN Err("profile stage_efforts entry is invalid")
        ELSE IF \E i \in DOMAIN stage_plan : ~stageErr(stage_plan[i]).ok
             THEN FirstErr([i \in DOMAIN stage_plan |-> stageErr(stage_plan[i])])
        ELSE [ok |-> TRUE,
              pipeline_group |-> pipeline,
              intent |-> requested_intent,
              profile |-> selected_profile,
              flags |-> runtime_flags,
              options |-> runtime_options,
              stage_plan |-> stage_plan,
              tool_models |-> tool_models,
              purpose_models |-> purpose_models,
              stage_models |-> [s \in stages |-> model(s)],
              stage_efforts |-> [s \in {x \in stages : _stage_tool(x) = "codex"} |-> effort(s)],
              stage_timeout_ms |-> [s \in stages |-> wrapper_defaults[_stage_tool(s)].timeout_ms],
              stage_timeout_modes |-> [s \in stages |-> mode(s)]]

\* config_resolve.resolve_dispatch: the plan, or the raised validation error.
resolve_dispatch(c, m, plan_name, intent_default) ==
    LET routing == GetMap(m, "routing")
        requested_intent == RequestedIntent(m, plan_name, intent_default)
        pipeline == _find_pipeline_for_profile_name(c, requested_intent)
        pipeline_override == GetMap(routing, "pipeline")
        first_profile == Or(Get(pipeline_override, "profile"), requested_intent)
        flags_override == GetMap(pipeline_override, "flags")
        options_override == GetMap(pipeline_override, "options")
    IN  IF pipeline = None THEN Err("routing.intent is not defined in pipelines.impl/review")
        ELSE
        LET first_data == _profile_data(c, pipeline, first_profile)
        IN  IF ~first_data.ok THEN first_data
            ELSE
            LET first_flags == _merge_dict(first_data.flags, flags_override)
                first_options == _merge_dict(first_data.options, options_override)
                selected_profile == RemapProfile(pipeline, first_options, first_profile)
                data == ProfileAfterRemap(c, pipeline, first_profile, first_data, selected_profile)
            IN  IF ~(DOMAIN first_flags \subseteq DISPATCH_ALLOWED_FLAGS[pipeline])
                THEN Err("pipeline does not support flags")
                ELSE IF ~(DOMAIN first_options \subseteq DispatchOptionNames(pipeline))
                THEN Err("pipeline does not support options")
                ELSE IF ~data.ok THEN data
                ELSE
                LET runtime_flags == _merge_dict(data.flags, flags_override)
                    runtime_options == _merge_dict(data.options, options_override)
                    stage_plan == _apply_dispatch_flag_filters(data.stages, runtime_flags)
                IN  IF ~StagePlanAccepted(stage_plan)
                    THEN Err("resolved dispatch stage plan is empty")
                    ELSE DispatchPlan(c, m, pipeline, requested_intent, selected_profile, data,
                                      runtime_flags, runtime_options, stage_plan)

\* ------------------------------------------------------------------ plan pipeline resolver

copilot_draft == <<"copilot", "draft">>
codex_enrich == <<"codex", "enrich">>
gemini_enrich == <<"gemini", "enrich">>
codex_cross_review == <<"codex", "cross", "review">>
gemini_cross_review == <<"gemini", "cross", "review">>
copilot_consolidate == <<"copilot", "consolidate">>

\* Faulty variant of stage_order: the stage-2 codex stage is left out.
stage_order_no_codex_enrich ==
    <<copilot_draft, gemini_enrich, codex_cross_review, gemini_cross_review, copilot_consolidate>>

\* resolve_plan_pipeline lines 420-427.
stage_order ==
    <<copilot_draft, codex_enrich, gemini_enrich, codex_cross_review, gemini_cross_review,
      copilot_consolidate>>

\* The order in which model_overrides is built and iterated (_main lines 529-533).
OVERRIDE_ORDER == <<"copilot", "gemini", "codex">>

\* resolve_plan_pipeline lines 366-368 and 381-389: the servant defaults, each
\* replaced by its CLI override when one is given.
PlanToolModels(c, model_overrides) ==
    [tool \in SERVANT_NAMES |->
        IF Get(model_overrides, tool) # None THEN model_overrides[tool]
        ELSE c.servants[tool].default_model]

\* resolve_plan_pipeline lines 381-388: every given CLI override must be allowed.
ModelOverridesOk(c, model_overrides) ==
    \A i \in DOMAIN OVERRIDE_ORDER :
        LET tool == OVERRIDE_ORDER[i]
        IN  Get(model_overrides, tool) # None =>
                InList(model_overrides[tool], c.servants[tool].allowed_models)

\* resolve_plan_pipeline lines 437-445: the model of one stage.
PlanStageModel(model_overrides, profile_stage_models, purpose_models, tool_models, tool, stage_name) ==
    IF Get(model_overrides, tool) # None THEN model_overrides[tool]
    ELSE IF Get(profile_stage_models, stage_name) # None THEN profile_stage_models[stage_name]
    ELSE IF Get(GetMap(purpose_models, tool), _plan_stage_purpose(stage_name)) # None
         THEN purpose_models[tool][_plan_stage_purpose(stage_name)]
    ELSE tool_models[tool]

\* config_resolve.resolve_plan_pipeline: the plan, or the raised validation error.
resolve_plan_pipeline(c, profile_override, model_overrides) ==
    LET plan_cfg == c.pipelines.plan
        profile_name == Or(profile_override, plan_cfg.default_profile)
    IN  IF profile_name \notin DOMAIN plan_cfg.profiles THEN Err("plan profile is not defined")
        ELSE
        LET profile == plan_cfg.profiles[profile_name]
            flags == GetMap(profile, "flags")
            options == GetMap(profile, "options")
            profile_stage_models == GetMap(profile, "stage_models")
            profile_stage_efforts == GetMap(profile, "stage_efforts")
            tool_models == PlanToolModels(c, model_overrides)
            purpose_models == PurposeModels(c)
            codex_purpose_efforts == CodexPurposeEfforts(c)
            wrapper_defaults == _resolve_tool_wrapper_defaults(c)
            timeout_mode_override == Get(options, "timeout_mode")
            model(s) == PlanStageModel(model_overrides, profile_stage_models, purpose_models,
                                       tool_models, _stage_tool(s), s)
            mode(s) == StageTimeoutMode(timeout_mode_override, wrapper_defaults, _stage_tool(s))
            effort(s) == StageEffort(profile_stage_efforts, codex_purpose_efforts, wrapper_defaults,
                                     s, _plan_stage_purpose(s))
            stageErr(s) ==
                IF ~TimeoutMsOk(wrapper_defaults, _stage_tool(s))
                THEN Err("wrapper_defaults.timeout_ms must be a non-negative integer")
                ELSE IF mode(s) \notin TIMEOUT_MODE_VALUES
                     THEN Err("resolved timeout_mode is invalid")
                ELSE IF _stage_tool(s) = "codex" /\ effort(s) \notin CODEX_EFFORT_VALUES
                     THEN Err("resolved codex effort is invalid")
                ELSE OK
            stages == Range(stage_order)
        IN  IF ~PurposeModelsOk(c) THEN Err("purpose_models entry is not allowed")
            ELSE IF ~CodexPurposeEffortsOk(c) THEN Err("purpose_efforts entry is invalid")
            ELSE IF timeout_mode_override # None /\ timeout_mode_override \notin TIMEOUT_MODE_VALUES
                 THEN Err("plan profile timeout_mode is invalid")
            ELSE IF ~ModelOverridesOk(c, model_overrides)
                 THEN Err("CLI override model is not allowed")
            ELSE IF \E stage_name \in DOMAIN profile_stage_models : _stage_tool(stage_name) = None
                 THEN Err("plan profile stage_models has unknown key")
            ELSE IF ~ProfileStageModelsOk(c, profile_stage_models)
                 THEN Err("plan profile stage_models entry is not allowed")
            ELSE IF ~ProfileStageEffortsOk(profile_stage_efforts)
                 THEN Err("plan profile stage_efforts entry is invalid")
            ELSE IF \E i \in DOMAIN stage_order : ~stageErr(stage_order[i]).ok
                 THEN FirstErr([i \in DOMAIN stage_order |-> stageErr(stage_order[i])])
            ELSE [ok |-> TRUE,
                  profile |-> profile_name,
                  flags |-> flags,
                  options |-> options,
                  tool_models |-> tool_models,
                  purpose_models |-> purpose_models,
                  stage_models |-> [s \in stages |-> model(s)],
                  stage_efforts |-> [s \in {x \in stages : _stage_tool(x) = "codex"} |-> effort(s)],
                  stage_timeout_ms |-> [s \in stages |-> wrapper_defaults[_stage_tool(s)].timeout_ms],
                  stage_timeout_modes |-> [s \in stages |-> mode(s)]]

\* ------------------------------------------------------------------ candidate documents

\* ------------------------------------------------------------------ v2 constants

TOOLS == <<"codex", "gemini", "copilot">>
PHASES == <<"plan", "impl", "review">>
WEB_RESEARCH_MODES == <<"off", "codex_explicit", "gemini_auto", "copilot_mcp">>
DEFAULT_MODES == <<"normal", "analysis_only">>
GATE_PROFILES == <<"standard", "strict", "minimal", "finding-first">>
TIMEOUT_MODES == <<"enforce", "wait_done">>

\* Faulty variant of TOOL_WEB_MODE_MAP: every tool takes every web research mode.
TOOL_WEB_MODE_MAP_any ==
    [tool \in {"codex", "gemini", "copilot"} |->
        {"off", "codex_explicit", "gemini_auto", "copilot_mcp"}]

TOOL_WEB_MODE_MAP ==
    [codex |-> {"off", "codex_explicit"},
     gemini |-> {"off", "gemini_auto"},
     copilot |-> {"off", "copilot_mcp"}]

\* ------------------------------------------------------------------ v2 validator

\* _expect_string_list: a non-empty list of non-empty strings.
_expect_string_list(value, path) ==
    FirstErr(<< Check(\A i \in DOMAIN value : Truthy(value[i]), path, "must be a non-empty string"),
                Check(value # << >>, path, "must not be empty") >>)

\* config_validate_v2._validate_step_default
_validate_step_default(path, step_node) ==
    LET default_tool == Get(step_node, "default_tool")
        default_mode == Get(step_node, "default_mode")
        web_mode == Get(step_node, "web_research_mode")
    IN  FirstErr(
          << Check(_ensure_keys(step_node, {"default_tool", "default_mode", "web_research_mode",
                                            "description"}), path, "unknown keys"),
             Check(Truthy(default_tool), path \o <<"default_tool">>, "must be a non-empty string"),
             Check(InList(default_tool, TOOLS), path \o <<"default_tool">>, "must be one of tools"),
             Check(Truthy(default_mode), path \o <<"default_mode">>, "must be a non-empty string"),
             Check(InList(default_mode, DEFAULT_MODES), path \o <<"default_mode">>,
                   "must be one of default modes"),
             Check(Truthy(web_mode), path \o <<"web_research_mode">>, "must be a non-empty string"),
             Check(InList(web_mode, WEB_RESEARCH_MODES), path \o <<"web_research_mode">>,
                   "must be one of web research modes"),
             Check(web_mode = "off"
                   \/ (InList(default_tool, TOOLS) /\ web_mode \in TOOL_WEB_MODE_MAP[default_tool]),
                   path \o <<"web_research_mode">>, "is not compatible with default_tool") >>)

\* One method of a skill file (_validate_skill_file lines 190-224).
ValidateMethod(path, method_node) ==
    LET steps == GetList(method_node, "steps")
        allowed_tools == GetList(method_node, "allowed_tools")
        gate_profile == Get(method_node, "gate_profile")
    IN  FirstErr(
          << Check(_ensure_keys(method_node, {"enabled", "steps", "allowed_tools", "gate_profile"}),
                   path, "unknown keys"),
             Check("enabled" \in DOMAIN method_node, path \o <<"enabled">>, "must be boolean"),
             _expect_string_list(steps, path \o <<"steps">>),
             _expect_string_list(allowed_tools, path \o <<"allowed_tools">>),
             Check(\A i \in DOMAIN allowed_tools : InList(allowed_tools[i], TOOLS),
                   path \o <<"allowed_tools">>, "must be one of tools"),
             Check(Truthy(gate_profile), path \o <<"gate_profile">>, "must be a non-empty string"),
             Check(InList(gate_profile, GATE_PROFILES), path \o <<"gate_profile">>,
                   "must be one of gate profiles") >>)

\* Faulty variant of AllMethodSteps: the steps of disabled methods are not counted.
AllMethodSteps_enabled_only(methods) ==
    UNION {Range(GetList(methods[m], "steps")) : m \in {x \in DOMAIN methods : methods[x].enabled}}

\* _validate_skill_file lines 238-241: the steps of all methods, enabled or not.
AllMethodSteps(methods) ==
    UNION {Range(GetList(methods[m], "steps")) : m \in DOMAIN methods}

\* config_validate_v2._validate_skill_file
_validate_skill_file(node, skill, path) ==
    LET default_method_ids == GetList(node, "default_method_ids")
        methods == GetMap(node, "methods")
        method_ids == KeyList(DOMAIN methods)
        step_defaults == GetMap(node, "step_defaults")
        step_ids == KeyList(DOMAIN step_defaults)
        all_method_steps == AllMethodSteps(methods)
    IN  FirstErr(
          << Check(_ensure_keys(node, {"version", "skill", "default_method_ids", "methods",
                                       "step_defaults"}), path, "unknown keys"),
             Check("version" \in DOMAIN node /\ node.version = 2, path \o <<"version">>, "must be 2"),
             Check(Get(node, "skill") = skill, path \o <<"skill">>, "must be the skill"),
             _expect_string_list(default_method_ids, path \o <<"default_method_ids">>),
             Check(methods # EmptyMap, path \o <<"methods">>, "must define at least one method"),
             FirstErr([i \in DOMAIN method_ids |->
                 ValidateMethod(path \o <<"methods", method_ids[i]>>, methods[method_ids[i]])]),
             Check(\A i \in DOMAIN default_method_ids : default_method_ids[i] \in DOMAIN methods,
                   path \o <<"default_method_ids">>, "must reference a method defined in methods"),
             Check(step_defaults # EmptyMap, path \o <<"step_defaults">>,
                   "must define at least one step default"),
             Check(all_method_steps \subseteq DOMAIN step_defaults, path \o <<"methods">>,
                   "step missing from step_defaults"),
             Check(DOMAIN step_defaults \subseteq all_method_steps, path \o <<"step_defaults">>,
                   "step is not referenced by any method"),
             FirstErr([i \in DOMAIN step_ids |->
                 _validate_step_default(path \o <<"step_defaults", step_ids[i]>>,
                                        step_defaults[step_ids[i]])]) >>)

\* config_validate_v2._validate_servant_file
_validate_servant_file(node, tool, path) ==
    LET default_model == Get(node, "default_model")
        allowed_models == GetList(node, "allowed_models")
        wrapper_defaults == GetMap(node, "wrapper_defaults")
        timeout_mode == Get(wrapper_defaults, "timeout_mode")
        web_capabilities == GetMap(node, "web_capabilities")
        modes == GetList(web_capabilities, "modes")
    IN  FirstErr(
          << Check(_ensure_keys(node, {"version", "tool", "default_model", "allowed_models",
                                       "wrapper_defaults", "web_capabilities", "purpose_models",
                                       "purpose_efforts", "effort_level_descriptions"}),
                   path, "unknown keys"),
             Check("version" \in DOMAIN node /\ node.version = 2, path \o <<"version">>, "must be 2"),
             Check(Get(node, "tool") = tool, path \o <<"tool">>, "must be the tool"),
             Check(Truthy(default_model), path \o <<"default_model">>, "must be a non-empty string"),
             _expect_string_list(allowed_models, path \o <<"allowed_models">>),
             Check(InList(default_model, allowed_models), path \o <<"default_model">>,
                   "must be included in allowed_models"),
             Check("wrapper_defaults" \in DOMAIN node, path \o <<"wrapper_defaults">>, "must be dict"),
             Check(_ensure_keys(wrapper_defaults, {"timeout_ms", "timeout_mode", "effort",
                                                   "approval_mode", "sandbox"}),
                   path \o <<"wrapper_defaults">>, "unknown keys"),
             Check("timeout_ms" \in DOMAIN wrapper_defaults /\ wrapper_defaults.timeout_ms >= 0,
                   path \o <<"wrapper_defaults", "timeout_ms">>, "must be a non-negative integer"),
             Check(Truthy(timeout_mode), path \o <<"wrapper_defaults", "timeout_mode">>,
                   "must be a non-empty string"),
             Check(InList(timeout_mode, TIMEOUT_MODES), path \o <<"wrapper_defaults", "timeout_mode">>,
                   "must be one of timeout modes"),
             Check("web_capabilities" \in DOMAIN node, path \o <<"web_capabilities">>, "must be dict"),
             Check(_ensure_keys(web_capabilities, {"modes"}), path \o <<"web_capabilities">>,
                   "unknown keys"),
             _expect_string_list(modes, path \o <<"web_capabilities", "modes">>),
             Check(\A i \in DOMAIN modes : modes[i] \in TOOL_WEB_MODE_MAP[tool],
                   path \o <<"web_capabilities", "modes">>, "must be one of the tool's modes"),
             Check(InList("off", modes), path \o <<"web_capabilities", "modes">>,
                   "must include 'off'") >>)

\* config_validate_v2.load_and_validate_v2_config, for the skill and servant
\* files (the policy files do not enter the resolution).
load_and_validate_v2_config(c) ==
    FirstErr(
      << FirstErr([i \in DOMAIN PHASES |->
             _validate_skill_file(c.skills[PHASES[i]], PHASES[i], <<"skills", PHASES[i]>>)]),
         FirstErr([i \in DOMAIN TOOLS |->
             _validate_servant_file(c.servants[TOOLS[i]], TOOLS[i], <<"servants", TOOLS[i]>>)]) >>)

\* A normalised value: what a function returns when it raises nothing.
Val(v) == [ok |-> TRUE, value |-> v]

\* One step override of a manifest (_normalize_phase_override lines 712-784).
NormalizeStepOverride(c, phase, step_id, step_node, path) ==
    LET step_defaults == c.skills[phase].step_defaults
        tool == Get(step_node, "tool")
        default_mode == Get(step_node, "default_mode")
        web_research_mode == Get(step_node, "web_research_mode")
        model == Get(step_node, "model")
        known == step_id \in DOMAIN step_defaults /\ (tool = None \/ InList(tool, TOOLS))
        effective_tool == IF Truthy(tool) THEN tool ELSE step_defaults[step_id].default_tool
        effective_web_mode ==
            IF Truthy(web_research_mode) THEN web_research_mode
            ELSE step_defaults[step_id].web_research_mode
        checks ==
          FirstErr(
            << Check(step_id \in DOMAIN step_defaults, path, "unknown step_id"),
               Check(_ensure_keys(step_node, {"tool", "model", "default_mode", "web_research_mode"}),
                     path, "unknown keys"),
               Check(tool = None \/ Truthy(tool), path \o <<"tool">>, "must be a non-empty string"),
               Check(tool = None \/ InList(tool, TOOLS), path \o <<"tool">>, "must be one of tools"),
               Check(default_mode = None \/ InList(default_mode, DEFAULT_MODES),
                     path \o <<"default_mode">>, "must be one of default modes"),
               Check(web_research_mode = None \/ InList(web_research_mode, WEB_RESEARCH_MODES),
                     path \o <<"web_research_mode">>, "must be one of web research modes"),
               Check(model = None \/ Truthy(model), path \o <<"model">>, "must be a non-empty string"),
               Check(model = None \/ ~known
                     \/ InList(model, c.servants[effective_tool].allowed_models),
                     path \o <<"model">>, "model is not allowed for tool"),
               Check(~known \/ effective_web_mode = "off"
                     \/ effective_web_mode \in TOOL_WEB_MODE_MAP[effective_tool],
                     path \o <<"web_research_mode">>, "is not compatible with tool") >>)
    IN  IF checks.ok THEN Val(OmitNone(step_node, DOMAIN step_node)) ELSE checks

\* config_validate_v2._normalize_phase_override
_normalize_phase_override(c, phase, node, path) ==
    LET method_id == Get(node, "method_id")
        methods == c.skills[phase].methods
        tool_models == GetMap(node, "tool_models")
        tools == KeyList(DOMAIN tool_models)
        step_overrides == GetMap(node, "step_overrides")
        step_ids == KeyList(DOMAIN step_overrides)
        step(sid) == NormalizeStepOverride(c, phase, sid, step_overrides[sid],
                                           path \o <<"step_overrides", sid>>)
        checks ==
          FirstErr(
            << Check(_ensure_keys(node, {"method_id", "tool_models", "step_overrides"}), path,
                     "unknown keys"),
               Check("method_id" \notin DOMAIN node \/ Truthy(method_id), path \o <<"method_id">>,
                     "must be a non-empty string"),
               Check("method_id" \notin DOMAIN node \/ method_id \in DOMAIN methods,
                     path \o <<"method_id">>, "unknown method_id for phase"),
               Check(_ensure_keys(tool_models, Range(TOOLS)), path \o <<"tool_models">>,
                     "unknown keys"),
               FirstErr([i \in DOMAIN tools |->
                   FirstErr(
                     << Check(Truthy(tool_models[tools[i]]), path \o <<"tool_models", tools[i]>>,
                              "must be a non-empty string"),
                        Check(~InList(tools[i], TOOLS)
                              \/ InList(tool_models[tools[i]], c.servants[tools[i]].allowed_models),
                              path \o <<"tool_models", tools[i]>>,
                              "model is not in allowed_models") >>)]),
               FirstErr([i \in DOMAIN step_ids |->
                   IF step(step_ids[i]).ok THEN OK ELSE step(step_ids[i])]) >>)
    IN  IF ~checks.ok THEN checks
        ELSE Val([k \in (DOMAIN node \cap {"method_id"}) \cup {"tool_models", "step_overrides"} |->
                    IF k = "method_id" THEN method_id
                    ELSE IF k = "tool_models" THEN tool_models
                    ELSE [sid \in DOMAIN step_overrides |-> step(sid).value]])

\* What load_manifest_if_present returns when no manifest path is given.
NoManifest == [None |-> TRUE]

\* config_validate_v2.load_manifest_if_present, the file's content being doc.
load_manifest_if_present(path, doc) == IF ~Truthy(path) THEN NoManifest ELSE doc

\* parse_manifest_v2_overrides lines 795-799: no override for any phase.
NoOverrides ==
    [phase_overrides |->
        [p \in Range(PHASES) |-> [tool_models |-> EmptyMap, step_overrides |-> EmptyMap]]]

\* config_validate_v2.parse_manifest_v2_overrides
parse_manifest_v2_overrides(c, m) ==
    LET config_v2 == GetMap(m, "config_v2")
        phase_overrides == GetMap(config_v2, "phase_overrides")
        phases == KeyList(DOMAIN phase_overrides)
        norm(p) == _normalize_phase_override(c, p, phase_overrides[p],
                                             <<"config_v2", "phase_overrides", p>>)
        checks ==
          FirstErr(
            << Check(_ensure_keys(config_v2, {"phase_overrides"}), <<"config_v2">>, "unknown keys"),
               Check(_ensure_keys(phase_overrides, Range(PHASES)), <<"config_v2", "phase_overrides">>,
                     "unknown keys"),
               FirstErr([i \in DOMAIN phases |->
                   IF ~InList(phases[i], PHASES) \/ norm(phases[i]).ok THEN OK
                   ELSE norm(phases[i])]) >>)
    IN  IF m = NoManifest \/ "config_v2" \notin DOMAIN m THEN Val(NoOverrides)
        ELSE IF ~checks.ok THEN checks
        ELSE Val([phase_overrides |->
                    [p \in Range(PHASES) |->
                        IF p \in DOMAIN phase_overrides THEN norm(p).value
                        ELSE NoOverrides.phase_overrides[p]]])

\* ------------------------------------------------------------------ v2 resolver

\* Faulty variant of _resolve_selected_method: the manifest's method id
\* overrides the runtime one.
_resolve_selected_method_manifest_last(c, phase, manifest_override, runtime_method_id) ==
    LET phase_cfg == c.skills[phase]
        default_method_ids == GetList(phase_cfg, "default_method_ids")
        manifest_method_id == Get(manifest_override, "method_id")
        selected ==
            IF Truthy(manifest_method_id) THEN manifest_method_id
            ELSE IF Truthy(runtime_method_id) THEN runtime_method_id
            ELSE default_method_ids[1]
        methods == phase_cfg.methods
    IN  IF default_method_ids = << >> THEN Err("default_method_ids must not be empty")
        ELSE IF selected \notin DOMAIN methods THEN Err("resolved method_id is not defined")
        ELSE IF ~("enabled" \in DOMAIN methods[selected] /\ methods[selected].enabled)
             THEN Err("resolved method_id is disabled")
        ELSE Val(selected)

\* config_resolve_v2._resolve_selected_method
_resolve_selected_method(c, phase, manifest_override, runtime_method_id) ==
    LET phase_cfg == c.skills[phase]
        default_method_ids == GetList(phase_cfg, "default_method_ids")
        manifest_method_id == Get(manifest_override, "method_id")
        selected ==
            IF Truthy(runtime_method_id) THEN runtime_method_id
            ELSE IF Truthy(manifest_method_id) THEN manifest_method_id
            ELSE default_method_ids[1]
        methods == phase_cfg.methods
    IN  IF default_method_ids = << >> THEN Err("default_method_ids must not be empty")
        ELSE IF selected \notin DOMAIN methods THEN Err("resolved method_id is not defined")
        ELSE IF ~("enabled" \in DOMAIN methods[selected] /\ methods[selected].enabled)
             THEN Err("resolved method_id is disabled")
        ELSE Val(selected)

\* Faulty variant of StepModel: the phase-level tool_models entry is applied
\* after the step-level model.
StepModel_phase_last(c, tool, phase_tool_models, step_override) ==
    IF tool \in DOMAIN phase_tool_models THEN phase_tool_models[tool]
    ELSE IF "model" \in DOMAIN step_override THEN step_override.model
    ELSE c.servants[tool].default_model

\* _resolve_step lines 84-91: the model of one step.
StepModel(c, tool, phase_tool_models, step_override) ==
    IF "model" \in DOMAIN step_override THEN step_override.model
    ELSE IF tool \in DOMAIN phase_tool_models THEN phase_tool_models[tool]
    ELSE c.servants[tool].default_model

\* config_resolve_v2._resolve_step
_resolve_step(c, phase, step_id, phase_override) ==
    LET base_step == c.skills[phase].step_defaults[step_id]
        step_override == GetMap(GetMap(phase_override, "step_overrides"), step_id)
        tool == Or(Get(step_override, "tool"), base_step.default_tool)
        default_mode == Or(Get(step_override, "default_mode"), base_step.default_mode)
        web_research_mode == Or(Get(step_override, "web_research_mode"), base_step.web_research_mode)
        model == StepModel(c, tool, GetMap(phase_override, "tool_models"), step_override)
    IN  IF web_research_mode # "off" /\ web_research_mode \notin TOOL_WEB_MODE_MAP[tool]
        THEN Err("step web_research_mode is not compatible with tool")
        ELSE IF ~InList(model, c.servants[tool].allowed_models)
             THEN Err("step resolved model is not allowed for tool")
        ELSE Val([tool |-> tool, model |-> model, default_mode |-> default_mode,
                  web_research_mode |-> web_research_mode])

\* Faulty variant of ResolvedSteps: a step id does not narrow the method's steps.
ResolvedSteps_all(method_steps, step_id) == method_steps

\* resolve_v2 lines 119-130: the steps to resolve, once membership is checked.
ResolvedSteps(method_steps, step_id) ==
    IF Truthy(step_id) THEN <<step_id>> ELSE method_steps

\* config_resolve_v2.resolve_v2: the resolution, or the raised validation error.
resolve_v2(c, phase, manifest_overrides, method_id, step_id) ==
    LET phase_override == GetMap(GetMap(manifest_overrides, "phase_overrides"), phase)
        selected == _resolve_selected_method(c, phase, phase_override, method_id)
    IN  IF ~selected.ok THEN selected
        ELSE
        LET selected_method_id == selected.value
            method_node == c.skills[phase].methods[selected_method_id]
            method_steps == GetList(method_node, "steps")
            resolved_steps == ResolvedSteps(method_steps, step_id)
            step(sid) == _resolve_step(c, phase, sid, phase_override)
        IN  IF method_steps = << >> THEN Err("resolved method has no steps")
            ELSE IF Truthy(step_id) /\ ~InList(step_id, method_steps)
                 THEN Err("step_id is not part of resolved method")
            ELSE IF \E i \in DOMAIN resolved_steps : ~step(resolved_steps[i]).ok
                 THEN FirstErr([i \in DOMAIN resolved_steps |->
                          IF step(resolved_steps[i]).ok THEN OK ELSE step(resolved_steps[i])])
            ELSE [ok |-> TRUE,
                  version |-> 2,
                  phase |-> phase,
                  selected_method_id |-> selected_method_id,
                  resolved_steps |-> resolved_steps,
                  step_agent_model_map |-> [sid \in Range(resolved_steps) |-> step(sid).value],
                  applied_overrides |->
                      [manifest |-> [method_id |-> Get(phase_override, "method_id"),
                                     tool_models |-> GetMap(phase_override, "tool_models"),
                                     step_overrides |-> GetMap(phase_override, "step_overrides")],
                       runtime |-> [method_id |-> method_id, step_id |-> step_id]]]

\* Longest stage list of a candidate dispatch profile.
MaxStages == 2

Prefixes(list, n) == {SubSeq(list, 1, k) : k \in 1..(IF n < Len(list) THEN n ELSE Len(list))}

CodexAllowed == <<"c1", "c2", "c3", "c4">>
GeminiAllowed == <<"g1", "g2">>
CopilotAllowed == <<"p1">>

CodexPurposeModelChoices ==
    {EmptyMap, [review |-> "c2", plan |-> "c2", one_shot |-> "c3"], [impl |-> "x9"]}

\* The three servant files, the codex one drawn from a few variants.
ServantsOf(codex_default, codex_purpose_models, codex_timeout_mode) ==
    [codex |->
        OmitEmpty([default_model |-> codex_default,
                 allowed_models |-> CodexAllowed,
                 wrapper_defaults |->
                     [effort |-> "medium", timeout_ms |-> 600, timeout_mode |-> codex_timeout_mode],
                 purpose_models |-> codex_purpose_models,
                 purpose_efforts |->
                     IF codex_purpose_models = EmptyMap THEN EmptyMap
                     ELSE [review |-> "high", one_shot |-> "low"]],
                  {"purpose_models", "purpose_efforts"}),
     gemini |->
        [default_model |-> "g1",
         allowed_models |-> GeminiAllowed,
         wrapper_defaults |->
             [approval_mode |-> "default", sandbox |-> FALSE, timeout_ms |-> 300,
              timeout_mode |-> "wait_done"],
         purpose_models |-> [plan |-> "g2"]],
     copilot |->
        [default_model |-> "p1",
         allowed_models |-> CopilotAllowed,
         wrapper_defaults |-> [timeout_ms |-> 0, timeout_mode |-> "enforce"]]]

ServantsChoices ==
    {ServantsOf(d, pm, tm) :
        d \in {"c1", "x9"}, pm \in CodexPurposeModelChoices, tm \in {"enforce", "never"}}

RichServants == ServantsOf("c1", [review |-> "c2", plan |-> "c2", one_shot |-> "c3"], "enforce")
BareServants == ServantsOf("c1", EmptyMap, "enforce")

gemini_brief == <<"gemini", "brief">>
codex_impl == <<"codex", "impl">>
codex_verify == <<"codex", "verify">>
codex_review == <<"codex", "review">>
gemini_review == <<"gemini", "review">>
codex_test_design == <<"codex", "test", "design">>
copilot_runbook == <<"copilot", "runbook">>
codex_brief == <<"codex", "brief">>

Profile(stages, flags, options, stage_models, stage_efforts) ==
    OmitEmpty([stages |-> stages, flags |-> flags, options |-> options,
               stage_models |-> stage_models, stage_efforts |-> stage_efforts],
              {"stages", "flags", "options", "stage_models", "stage_efforts"})

ImplStageLists ==
    Prefixes(<<codex_review, gemini_brief, codex_impl>>, MaxStages)
    \cup Prefixes(<<codex_brief, codex_verify, codex_review>>, MaxStages)

ImplFlagChoices ==
    {EmptyMap, [enable_brief |-> FALSE, enable_review |-> TRUE], [enable_review |-> FALSE]}

ImplOptionChoices ==
    {EmptyMap, [impl_mode |-> "one_shot"], [impl_mode |-> "safe", timeout_mode |-> "wait_done"]}

\* (stage_models, stage_efforts) of a candidate profile; the last is not allowed.
ImplOverrideChoices ==
    { <<EmptyMap, EmptyMap>>,
      <<(codex_review :> "c4") @@ (gemini_brief :> "g2") @@ (codex_brief :> "c4"),
        (codex_review :> "xhigh")>>,
      <<(codex_impl :> "g1"), EmptyMap>> }

SafeImplBodies ==
    {Profile(st, fl, op, ov[1], ov[2]) :
        st \in ImplStageLists, fl \in ImplFlagChoices, op \in ImplOptionChoices,
        ov \in ImplOverrideChoices}

OneShotBodies ==
    { Profile(<<copilot_runbook, gemini_brief>>, [enable_brief |-> TRUE], [impl_mode |-> "one_shot"],
              EmptyMap, EmptyMap),
      Profile(<<codex_test_design, codex_review>>, [enable_review |-> FALSE], EmptyMap,
              (codex_test_design :> "c4"), EmptyMap),
      Profile(<<codex_brief, codex_impl>>, [enable_verify |-> FALSE], [impl_mode |-> "safe"],
              EmptyMap, EmptyMap) }

ImplPipelines ==
    {[default_profile |-> "safe_impl", profiles |-> [safe_impl |-> a]] : a \in SafeImplBodies}
    \cup {[default_profile |-> "safe_impl", profiles |-> [safe_impl |-> a, one_shot_impl |-> b]] :
            a \in SafeImplBodies, b \in OneShotBodies}

FixedImplPipeline ==
    [default_profile |-> "safe_impl",
     profiles |-> [safe_impl |-> Profile(<<gemini_brief, codex_impl, codex_review>>, EmptyMap,
                                         EmptyMap, EmptyMap, EmptyMap)]]

ReviewBodies ==
    {Profile(st, fl, op, sm, EmptyMap) :
        st \in Prefixes(<<codex_review, gemini_review>>, MaxStages),
        fl \in {EmptyMap, [enable_review |-> FALSE], [enable_verify |-> FALSE]},
        op \in {EmptyMap, [review_mode |-> "cross"], [timeout_mode |-> "enforce"]},
        sm \in {EmptyMap, (gemini_review :> "g2")}}

CrossBody ==
    Profile(<<codex_review, gemini_review, codex_verify>>, [enable_verify |-> FALSE],
            [review_mode |-> "cross"], (codex_review :> "c3"), EmptyMap)

ReviewPipelines ==
    {[default_profile |-> "codex_only", profiles |-> [codex_only |-> r]] : r \in ReviewBodies}
    \cup {[default_profile |-> "codex_only",
           profiles |-> [codex_only |-> r, review_cross |-> CrossBody]] : r \in ReviewBodies}

\* An impl pipeline with a profile named like the review pipeline's codex_only.
SharedNameImplPipeline ==
    [default_profile |-> "safe_impl",
     profiles |-> [safe_impl |-> Profile(<<gemini_brief, codex_impl>>, EmptyMap, EmptyMap, EmptyMap, EmptyMap),
                   codex_only |-> Profile(<<codex_impl, codex_verify>>, EmptyMap, EmptyMap, EmptyMap,
                                          EmptyMap)]]

FixedReviewPipeline ==
    [default_profile |-> "codex_only",
     profiles |-> [codex_only |-> Profile(<<codex_review>>, EmptyMap, EmptyMap, EmptyMap, EmptyMap)]]

FixedPlanPipeline ==
    [default_profile |-> "default",
     profiles |-> [default |-> Profile(<< >>, [enable_stage2_codex |-> TRUE],
                                       [consolidate_mode |-> "standard"], EmptyMap, EmptyMap)]]

Config(servants, impl, review, plan) ==
    [version |-> 1, servants |-> servants,
     pipelines |-> [impl |-> impl, review |-> review, plan |-> plan]]

\* The config roots of the dispatch command: every servant variant under fixed
\* pipelines, and every impl or review pipeline variant under valid servants.
DispatchConfigs ==
    {Config(sv, FixedImplPipeline, FixedReviewPipeline, FixedPlanPipeline) : sv \in ServantsChoices}
    \cup {Config(RichServants, p, FixedReviewPipeline, FixedPlanPipeline) : p \in ImplPipelines}
    \cup {Config(sv, FixedImplPipeline, p, FixedPlanPipeline) :
            sv \in {RichServants, BareServants}, p \in ReviewPipelines}
    \cup {Config(RichServants, SharedNameImplPipeline, FixedReviewPipeline, FixedPlanPipeline)}

ManifestModelChoices == {EmptyMap, [codex |-> "c3"], [codex |-> "x9"], [gemini |-> "g2"]}

ManifestPipelineChoices ==
    {OmitEmpty([flags |-> fl, options |-> op], {"flags", "options"}) :
        fl \in {EmptyMap, [enable_review |-> FALSE], [enable_brief |-> FALSE]},
        op \in {EmptyMap, [impl_mode |-> "one_shot"], [timeout_mode |-> "wait_done"],
                [review_mode |-> "cross"]}}
    \cup {[profile |-> "one_shot_impl"], [profile |-> "one_shot_impl", options |-> [impl_mode |-> "safe"]],
          [flags |-> [enable_stage2_codex |-> TRUE]], [options |-> [consolidate_mode |-> "standard"]]}

ManifestIntentChoices == {None, "safe_impl", "codex_only"}

\* The task manifests: the empty document, and a routing block built from the choices.
Manifests ==
    {EmptyMap}
    \cup {[routing |-> OmitEmpty([model |-> mo, pipeline |-> pi], {"model", "pipeline"})] :
            mo \in ManifestModelChoices, pi \in ManifestPipelineChoices}
    \cup {[routing |-> OmitEmpty([intent |-> i, model |-> mo, pipeline |-> pi], {"model", "pipeline"})] :
            i \in ManifestIntentChoices \ {None}, mo \in ManifestModelChoices,
            pi \in ManifestPipelineChoices}
    \cup {[routing |-> [intent |-> i]] : i \in {"", "nightly"}}

\* --plan-name and --intent-default of the dispatch command.
DispatchArgs ==
    { [plan_name |-> "auto", intent_default |-> "safe_impl"],
      [plan_name |-> "auto", intent_default |-> "nightly"],
      [plan_name |-> "one_shot_impl", intent_default |-> "safe_impl"],
      [plan_name |-> "codex_only", intent_default |-> "safe_impl"] }

\* ------------------------------------------------------------------ dispatch command

NoValue == [ok |-> FALSE, error |-> "not run"]

IdleFilter == [stages |-> << >>, flags |-> EmptyMap, applied |-> {}, out |-> << >>]

\* config_resolve._main line 517: load_and_validate_split_config.
LoadConfig ==
    /\ pc = "start"
    /\ LET v == validate_runtime_config_dict(cfg)
       IN  /\ pc' = IF v.ok THEN "loaded" ELSE "rejected_config"
           /\ result' = IF v.ok THEN result ELSE v
    /\ UNCHANGED <<cfg, manifest, args, filt, cfg2, overrides2, args2, result2, root, out>>

\* config_resolve._main lines 520-523: the manifest is loaded and validated.
LoadManifest ==
    /\ pc = "loaded"
    /\ \E m \in Manifests, a \in DispatchArgs :
        /\ manifest' = m
        /\ args' = a
        /\ LET v == validate_manifest_extensions(cfg, m)
           IN  /\ pc' = IF v.ok THEN "validated" ELSE "rejected_manifest"
               /\ result' = IF v.ok THEN result ELSE v
    /\ UNCHANGED <<cfg, filt, cfg2, overrides2, args2, result2, root, out>>

\* config_resolve._main lines 524-526 and 535-541: resolve, then print or fail.
ResolveDispatch ==
    /\ pc = "validated"
    /\ result' = resolve_dispatch(cfg, manifest, args.plan_name, args.intent_default)
    /\ pc' = IF result'.ok THEN "done" ELSE "rejected_plan"
    /\ UNCHANGED <<cfg, manifest, args, filt, cfg2, overrides2, args2, result2, root, out>>

Init ==
    /\ pc = "start"
    /\ cfg \in DispatchConfigs
    /\ manifest = EmptyMap
    /\ args = [plan_name |-> "auto", intent_default |-> "safe_impl"]
    /\ result = NoValue
    /\ filt = IdleFilter
    /\ cfg2 = EmptyMap
    /\ overrides2 = EmptyMap
    /\ args2 = EmptyMap
    /\ result2 = NoValue
    /\ root = EmptyMap
    /\ out = NoValue

Next == LoadConfig \/ LoadManifest \/ ResolveDispatch

Spec == Init /\ [][Next]_vars
\* ------------------------------------------------------------------ properties of the dispatch command

\* The manifest's routing block and its parts, as the resolver reads them.
Routing == GetMap(manifest, "routing")
RoutingModel == GetMap(Routing, "model")
RoutingPipeline == GetMap(Routing, "pipeline")
RoutingFlags == GetMap(RoutingPipeline, "flags")
RoutingOptions == GetMap(RoutingPipeline, "options")

\* The profiles of the pipeline the returned plan belongs to.
PlanProfiles == cfg.pipelines[result.pipeline_group].profiles

\* The stages of the returned plan.
PlanStages == Range(result.stage_plan)

\* C1: every stage of a returned dispatch plan has a model of its servant's
\* allowed_models and a timeout mode that is enforce or wait_done.
C1_StageModelsAllowed ==
    pc = "done" =>
        \A s \in PlanStages :
            /\ Head(s) \in SERVANT_NAMES
            /\ \E i \in DOMAIN cfg.servants[Head(s)].allowed_models :
                   cfg.servants[Head(s)].allowed_models[i] = result.stage_models[s]
            /\ result.stage_timeout_modes[s] \in {"enforce", "wait_done"}

\* A plan whose codex stage takes its model from the manifest and whose timeout
\* mode comes from a manifest option.
C1_Witness ==
    /\ pc = "done"
    /\ Get(RoutingModel, "codex") = "c3"
    /\ Get(RoutingOptions, "timeout_mode") = "wait_done"
    /\ \E s \in PlanStages : Head(s) = "codex" /\ result.stage_models[s] = "c3"
    /\ \E s \in PlanStages : Head(s) = "gemini" /\ result.stage_models[s] = "g2"

\* C2: a routing.model entry for servant T gives every stage of T exactly that
\* model, whatever the profile, the purpose table and the default say.
C2_ManifestModelWins ==
    pc = "done" =>
        \A s \in PlanStages :
            Head(s) \in DOMAIN RoutingModel => result.stage_models[s] = RoutingModel[Head(s)]

\* A codex stage for which the manifest model, the profile's stage_models entry,
\* the purpose_models entry and default_model are all present and all different.
C2_Witness ==
    /\ pc = "done"
    /\ "codex" \in DOMAIN RoutingModel
    /\ codex_review \in PlanStages
    /\ codex_review \in DOMAIN GetMap(PlanProfiles[result.profile], "stage_models")
    /\ "review" \in DOMAIN GetMap(cfg.servants.codex, "purpose_models")
    /\ Cardinality({RoutingModel.codex,
                    PlanProfiles[result.profile].stage_models[codex_review],
                    cfg.servants.codex.purpose_models.review,
                    cfg.servants.codex.default_model}) = 4

\* The key-by-key overlay of the manifest's overrides on a profile's own map.
IsOverlay(merged, own, override) ==
    /\ DOMAIN merged = DOMAIN own \cup DOMAIN override
    /\ \A k \in DOMAIN override : merged[k] = override[k]
    /\ \A k \in DOMAIN own \ DOMAIN override : merged[k] = own[k]

\* A stage the flags disable: the stage-dropping rules of the resolver, stated
\* on the stage's words.
Disabled(s, flags) ==
    \/ IsFalse(flags, "enable_brief") /\ s[Len(s)] = "brief"
    \/ IsFalse(flags, "enable_verify") /\ \E i \in 2..Len(s) : WordIn("verify", s[i])
    \/ IsFalse(flags, "enable_review") /\ \E i \in 2..Len(s) : WordIn("review", s[i])

Enabled(s, flags) == ~Disabled(s, flags)

\* list is exactly the stages of declared that the flags leave enabled, in order.
IsFiltered(list, declared, flags) ==
    LET kept == {i \in DOMAIN declared : Enabled(declared[i], flags)}
    IN  /\ Len(list) = Cardinality(kept)
        /\ \A i \in kept : list[Cardinality({j \in kept : j <= i})] = declared[i]

\* C3: with routing.pipeline.options.impl_mode = one_shot on the impl pipeline the
\* plan is that of profile one_shot_impl: its stages, and its own flags and
\* options overlaid with the manifest's overrides.
C3_OneShotRemap ==
    (pc = "done" /\ result.pipeline_group = "impl" /\ Get(RoutingOptions, "impl_mode") = "one_shot") =>
        /\ result.profile = "one_shot_impl"
        /\ "one_shot_impl" \in DOMAIN PlanProfiles
        /\ IsOverlay(result.flags, GetMap(PlanProfiles.one_shot_impl, "flags"), RoutingFlags)
        /\ IsOverlay(result.options, GetMap(PlanProfiles.one_shot_impl, "options"), RoutingOptions)
        /\ IsFiltered(result.stage_plan, PlanProfiles.one_shot_impl.stages, result.flags)

\* The remap replaces safe_impl, whose own flags, options and stages differ from
\* those of one_shot_impl.
C3_Witness ==
    /\ pc = "done"
    /\ result.pipeline_group = "impl"
    /\ Get(RoutingOptions, "impl_mode") = "one_shot"
    /\ result.intent = "safe_impl"
    /\ "profile" \notin DOMAIN RoutingPipeline
    /\ GetMap(PlanProfiles.safe_impl, "flags") # GetMap(PlanProfiles.one_shot_impl, "flags")
    /\ "timeout_mode" \in DOMAIN GetMap(PlanProfiles.safe_impl, "options")
    /\ Range(PlanProfiles.safe_impl.stages) \cap Range(PlanProfiles.one_shot_impl.stages) = {}

\* C4: a returned plan never has an empty stage_plan and holds no stage its flags
\* disable; and in scenario C (the only stage of the profile is codex_review and
\* the manifest sets enable_review=false) the run ends with the error
\* 'resolved dispatch stage plan is empty'.
C4_NoEmptyStagePlan ==
    /\ pc = "done" =>
           /\ result.stage_plan # << >>
           /\ \A s \in PlanStages : Enabled(s, result.flags)
    /\ ( /\ pc \in {"done", "rejected_plan"}
         /\ args.plan_name = "codex_only"
         /\ "codex_only" \notin DOMAIN cfg.pipelines.impl.profiles
         /\ cfg.pipelines.review.profiles.codex_only.stages = <<codex_review>>
         /\ "review_mode" \notin DOMAIN GetMap(cfg.pipelines.review.profiles.codex_only, "options")
         /\ DOMAIN RoutingPipeline = {"flags"}
         /\ RoutingFlags = [enable_review |-> FALSE] )
       => (pc = "rejected_plan" /\ result.error = "resolved dispatch stage plan is empty")

\* Scenario C happens: the filters remove every stage and the run is rejected.
C4_Witness ==
    /\ pc = "rejected_plan"
    /\ result.error = "resolved dispatch stage plan is empty"
    /\ args.plan_name = "codex_only"
    /\ cfg.pipelines.review.profiles.codex_only.stages = <<codex_review>>
    /\ RoutingFlags = [enable_review |-> FALSE]

\* The manifest carries no routing overrides (it may name the intent).
NoRoutingOverrides == DOMAIN Routing \subseteq {"intent"}

\* The profile a mode option names.
ModeProfile ==
    [safe |-> "safe_impl", one_shot |-> "one_shot_impl", codex_only |-> "codex_only",
     cross |-> "review_cross"]

\* The profile the own options of profile p of the plan's pipeline name: p itself
\* when they carry no impl_mode (impl) / review_mode (review).
OwnModeProfile(p) ==
    LET mode == Get(GetMap(PlanProfiles[p], "options"),
                    IF result.pipeline_group = "impl" THEN "impl_mode" ELSE "review_mode")
    IN  IF mode = None THEN p ELSE ModeProfile[mode]

\* C5 as stated: without routing overrides the plan is the intent's profile and
\* its declared stages verbatim.
C5_IntentProfileVerbatim ==
    (pc = "done" /\ NoRoutingOverrides) =>
        /\ result.intent \in DOMAIN PlanProfiles
        /\ result.profile = result.intent
        /\ result.stage_plan = PlanProfiles[result.intent].stages

\* C5 amended: without routing overrides the plan's pipeline defines the intent's
\* profile; the returned profile is the one the intent profile's own mode option
\* names (the intent itself when it has none); the stage plan is the returned
\* profile's declared stages without those its own flags disable, hence verbatim
\* when none of its flags is false.
C5_IntentProfileOwnSettings ==
    (pc = "done" /\ NoRoutingOverrides) =>
        /\ result.intent \in DOMAIN PlanProfiles
        /\ result.pipeline_group = "review" => result.intent \notin DOMAIN cfg.pipelines.impl.profiles
        /\ result.profile = OwnModeProfile(result.intent)
        /\ result.profile \in DOMAIN PlanProfiles
        /\ IsFiltered(result.stage_plan, PlanProfiles[result.profile].stages,
                      GetMap(PlanProfiles[result.profile], "flags"))
        /\ (\A f \in DOMAIN GetMap(PlanProfiles[result.profile], "flags") :
                PlanProfiles[result.profile].flags[f])
           => result.stage_plan = PlanProfiles[result.profile].stages

\* Intent safe_impl without overrides returns profile safe_impl, and the profile's
\* own flags have removed one of its declared stages.
C5_Witness ==
    /\ pc = "done"
    /\ NoRoutingOverrides
    /\ result.intent = "safe_impl"
    /\ result.pipeline_group = "impl"
    /\ result.profile = "safe_impl"
    /\ Len(result.stage_plan) < Len(PlanProfiles.safe_impl.stages)
\* ------------------------------------------------------------------ flag filtering on its own

\* Longest stage list given to the flag filters.
MaxFilterLen == 3

FILTER_NAMES == {"enable_brief", "enable_verify", "enable_review"}

\* Stage names that tell the three filters apart: a whole-word role, a role that
\* only contains the word, a role that two filters match, a role none matches.
FilterVocabulary ==
    { <<"codex", "brief">>, <<"codex", "verify">>, <<"gemini", "review">>, <<"codex", "impl">>,
      <<"gemini", "reviewer", "brief">>, <<"codex", "preverify", "review">>,
      <<"copilot", "debrief">> }

FilterStageLists == UNION {[1..n -> FilterVocabulary] : n \in 0..MaxFilterLen}

FilterFlagMaps == UNION {[names -> BOOLEAN] : names \in SUBSET FILTER_NAMES}

\* One of the three filtering statements of _apply_dispatch_flag_filters (lines
\* 112-117), applied to the list filtered so far.
ApplyOneFilter(name) ==
    /\ pc = "filter"
    /\ name \notin filt.applied
    /\ filt' = [filt EXCEPT
          !.applied = @ \cup {name},
          !.out = IF name = "enable_brief" THEN FilterBrief(@, filt.flags)
                  ELSE IF name = "enable_verify" THEN FilterVerify(@, filt.flags)
                  ELSE FilterReview(@, filt.flags)]
    /\ UNCHANGED <<pc, cfg, manifest, args, result, cfg2, overrides2, args2, result2, root, out>>

ApplyBrief == ApplyOneFilter("enable_brief")
ApplyVerify == ApplyOneFilter("enable_verify")
ApplyReview == ApplyOneFilter("enable_review")

\* The whole of _apply_dispatch_flag_filters (lines 108-118).
ApplyAllFilters ==
    /\ pc = "filter"
    /\ filt.applied = {}
    /\ filt' = [filt EXCEPT !.applied = FILTER_NAMES,
                            !.out = _apply_dispatch_flag_filters(filt.stages, filt.flags)]
    /\ UNCHANGED <<pc, cfg, manifest, args, result, cfg2, overrides2, args2, result2, root, out>>

InitFilter ==
    /\ pc = "filter"
    /\ \E st \in FilterStageLists, fl \in FilterFlagMaps :
           filt = [stages |-> st, flags |-> fl, applied |-> {}, out |-> st]
    /\ cfg = EmptyMap
    /\ manifest = EmptyMap
    /\ args = EmptyMap
    /\ result = NoValue
    /\ cfg2 = EmptyMap
    /\ overrides2 = EmptyMap
    /\ args2 = EmptyMap
    /\ result2 = NoValue
    /\ root = EmptyMap
    /\ out = NoValue

NextFilter == ApplyBrief \/ ApplyVerify \/ ApplyReview \/ ApplyAllFilters

SpecFilter == InitFilter /\ [][NextFilter]_vars

\* a is an order-preserving sub-list of b.
RECURSIVE IsSubList(_, _)
IsSubList(a, b) ==
    IF a = << >> THEN TRUE
    ELSE IF b = << >> THEN FALSE
    ELSE IF Head(a) = Head(b) THEN IsSubList(Tail(a), Tail(b))
    ELSE IsSubList(a, Tail(b))

\* The flags with one more of them set to false.
WithFalse(flags, name) ==
    [k \in DOMAIN flags \cup {name} |-> IF k = name THEN FALSE ELSE flags[k]]

\* C6: flag filtering is order-independent and monotonic: however the three
\* filters are ordered the outcome is the list of the stages the flags leave
\* enabled, an order-preserving sub-list of the input; and one more flag set to
\* false yields a sub-list of that outcome, never a stage that was absent.
C6_FilterOrderIndependentMonotonic ==
    /\ IsSubList(filt.out, filt.stages)
    /\ filt.applied = FILTER_NAMES =>
           /\ IsFiltered(filt.out, filt.stages, filt.flags)
           /\ \A name \in FILTER_NAMES :
                  IsSubList(_apply_dispatch_flag_filters(filt.stages, WithFalse(filt.flags, name)),
                            filt.out)

\* The three filters were applied one by one, review first and brief last, each
\* removed a stage, and a stage survived.
C6_Witness ==
    /\ filt.applied = FILTER_NAMES
    /\ \A name \in FILTER_NAMES : IsFalse(filt.flags, name)
    /\ filt.stages = << <<"codex", "preverify", "review">>, <<"codex", "impl">>, <<"codex", "brief">> >>
    /\ filt.out = << <<"codex", "impl">> >>
\* ------------------------------------------------------------------ plan command

PlanFlagChoices ==
    {EmptyMap, [enable_stage2_codex |-> FALSE, enable_stage3_cross_review |-> FALSE],
     [enable_brief |-> FALSE]}

PlanOptionChoices ==
    {EmptyMap, [consolidate_mode |-> "standard"], [timeout_mode |-> "wait_done"]}

\* (stage_models, stage_efforts) of a candidate plan profile: keyed by the
\* validator's plan stage names, by the resolver's stage names, or not allowed.
PlanOverrideChoices ==
    { <<EmptyMap, EmptyMap>>,
      <<(<<"stage2", "codex">> :> "c2"), EmptyMap>>,
      <<(<<"stage3", "codex", "review">> :> "c4") @@ (<<"stage1">> :> "p1"), EmptyMap>>,
      <<EmptyMap, (<<"stage2", "codex">> :> "high")>>,
      <<(codex_enrich :> "c2"), EmptyMap>>,
      <<(<<"stage2", "gemini">> :> "c1"), EmptyMap>>,
      <<EmptyMap, (<<"stage2", "gemini">> :> "high")>> }

PlanBodies ==
    {Profile(<< >>, fl, op, ov[1], ov[2]) :
        fl \in PlanFlagChoices, op \in PlanOptionChoices, ov \in PlanOverrideChoices}
    \cup {Profile(<<codex_impl>>, EmptyMap, EmptyMap, EmptyMap, EmptyMap)}

PlanPipelines ==
    {[default_profile |-> "default", profiles |-> [default |-> a]] : a \in PlanBodies}
    \cup {[default_profile |-> "default",
           profiles |-> [default |-> FixedPlanPipeline.profiles.default, fast |-> a]] :
            a \in PlanBodies}

\* The config roots of the plan command: every servant variant under fixed
\* pipelines, and every plan pipeline variant under valid servants.
PlanConfigs ==
    {Config(sv, FixedImplPipeline, FixedReviewPipeline, FixedPlanPipeline) : sv \in ServantsChoices}
    \cup {Config(sv, FixedImplPipeline, FixedReviewPipeline, p) :
            sv \in {RichServants, BareServants}, p \in PlanPipelines}

\* --profile, --copilot-model, --gemini-model and --codex-model of the plan command.
PlanArgs ==
    [profile : {None, "fast", "missing"},
     model_overrides : {[copilot |-> p, gemini |-> g, codex |-> c] :
                            p \in {None, "p1"}, g \in {None, "g2"}, c \in {None, "c4", "x9"}}]

\* config_resolve._main lines 528-533 and 535-541: resolve, then print or fail.
ResolvePlan ==
    /\ pc = "loaded"
    /\ \E a \in PlanArgs :
        /\ args' = a
        /\ result' = resolve_plan_pipeline(cfg, a.profile, a.model_overrides)
        /\ pc' = IF result'.ok THEN "done" ELSE "rejected_plan"
    /\ UNCHANGED <<cfg, manifest, filt, cfg2, overrides2, args2, result2, root, out>>

InitPlan ==
    /\ pc = "start"
    /\ cfg \in PlanConfigs
    /\ manifest = EmptyMap
    /\ args = [profile |-> None, model_overrides |-> [copilot |-> None, gemini |-> None, codex |-> None]]
    /\ result = NoValue
    /\ filt = IdleFilter
    /\ cfg2 = EmptyMap
    /\ overrides2 = EmptyMap
    /\ args2 = EmptyMap
    /\ result2 = NoValue
    /\ root = EmptyMap
    /\ out = NoValue

NextPlan == LoadConfig \/ ResolvePlan

SpecPlan == InitPlan /\ [][NextPlan]_vars

\* ------------------------------------------------------------------ properties of the plan command

\* The plan command has resolved, or failed to resolve, a validated config.
PlanResolved == pc \in {"done", "rejected_plan"}

\* The profile the plan command selects, when it is defined.
PlanProfileName == Or(args.profile, cfg.pipelines.plan.default_profile)
PlanProfileDefined == PlanProfileName \in DOMAIN cfg.pipelines.plan.profiles
PlanProfile == cfg.pipelines.plan.profiles[PlanProfileName]

\* Every CLI model override given is one of its servant's allowed models.
PlanOverridesAllowed ==
    \A tool \in SERVANT_NAMES :
        args.model_overrides[tool] # None =>
            InList(args.model_overrides[tool], cfg.servants[tool].allowed_models)

\* The six stages of the plan pipeline.
SixStages ==
    { <<"copilot", "draft">>, <<"codex", "enrich">>, <<"gemini", "enrich">>,
      <<"codex", "cross", "review">>, <<"gemini", "cross", "review">>,
      <<"copilot", "consolidate">> }

\* The stage of the plan pipeline that each stage name of the validator denotes.
PlanStageOf ==
    (<<"stage1">> :> <<"copilot", "draft">>) @@ (<<"stage2", "codex">> :> <<"codex", "enrich">>)
    @@ (<<"stage2", "gemini">> :> <<"gemini", "enrich">>)
    @@ (<<"stage3", "codex", "review">> :> <<"codex", "cross", "review">>)
    @@ (<<"stage3", "gemini", "review">> :> <<"gemini", "cross", "review">>)
    @@ (<<"stage4">> :> <<"copilot", "consolidate">>)

\* The model the stated precedence gives a stage that has no CLI override.
ExpectedPlanModel(stage) ==
    LET tool == Head(stage)
        declared == GetMap(PlanProfile, "stage_models")
        named == {k \in DOMAIN declared : k = stage \/ (k \in DOMAIN PlanStageOf /\ PlanStageOf[k] = stage)}
        purpose == IF \E i \in DOMAIN stage : stage[i] = "review" THEN "review" ELSE "plan"
        table == GetMap(cfg.servants[tool], "purpose_models")
    IN  IF named # {} THEN declared[CHOOSE k \in named : TRUE]
        ELSE IF purpose \in DOMAIN table THEN table[purpose]
        ELSE cfg.servants[tool].default_model

\* C7: in a plan resolved from a validated config, a stage whose servant has no
\* CLI model override gets the selected profile's stage_models entry for the
\* stage, else the servant's purpose_models entry for the stage's purpose, else
\* the servant's default_model; and a validated profile with a non-empty
\* stage_models resolves successfully whenever the profile is defined and the
\* CLI overrides are allowed.
C7_PlanStageModelPrecedence ==
    PlanResolved =>
        /\ (PlanProfileDefined /\ PlanOverridesAllowed
                /\ GetMap(PlanProfile, "stage_models") # EmptyMap) => result.ok
        /\ result.ok =>
               \A stage \in SixStages :
                   args.model_overrides[Head(stage)] = None =>
                       result.stage_models[stage] = ExpectedPlanModel(stage)

\* A validated config whose selected plan profile declares no stage_models
\* resolves whenever the profile is defined and the CLI overrides are allowed,
\* and each stage without a CLI override gets the purpose_models entry, else
\* the default model.
PlanResolvesWithoutStageModels ==
    (PlanResolved /\ PlanProfileDefined /\ PlanOverridesAllowed
        /\ GetMap(PlanProfile, "stage_models") = EmptyMap
        /\ GetMap(PlanProfile, "stage_efforts") = EmptyMap) =>
        /\ result.ok
        /\ \A stage \in SixStages :
               args.model_overrides[Head(stage)] = None =>
                   result.stage_models[stage] = ExpectedPlanModel(stage)

\* No validated plan profile with a non-empty stage_models resolves.
PlanStageModelsNeverResolve ==
    (PlanResolved /\ PlanProfileDefined /\ GetMap(PlanProfile, "stage_models") # EmptyMap) =>
        ~result.ok

\* C8: every plan returned by resolve_plan_pipeline covers exactly the six
\* stages: stage_models, stage_timeout_ms and stage_timeout_modes have exactly
\* these six keys, whatever the profile's flags.
C8_PlanCoversSixStages ==
    (PlanResolved /\ result.ok) =>
        /\ DOMAIN result.stage_models = SixStages
        /\ DOMAIN result.stage_timeout_ms = SixStages
        /\ DOMAIN result.stage_timeout_modes = SixStages

\* A plan was returned for a profile whose flags disable stage 2 codex and the
\* stage-3 cross review, and it still holds those stages.
C8_Witness ==
    /\ pc = "done"
    /\ result.flags = [enable_stage2_codex |-> FALSE, enable_stage3_cross_review |-> FALSE]
    /\ {<<"codex", "enrich">>, <<"codex", "cross", "review">>} \subseteq DOMAIN result.stage_models
\* ------------------------------------------------------------------ v2 resolve command

Method(enabled, steps) ==
    [enabled |-> enabled, steps |-> steps, allowed_tools |-> <<"codex", "gemini">>,
     gate_profile |-> "standard"]

StepDefault(tool, mode, web) ==
    [default_tool |-> tool, default_mode |-> mode, web_research_mode |-> web]

SkillFile(skill, default_method_ids, methods, s1) ==
    [version |-> 2, skill |-> skill, default_method_ids |-> default_method_ids,
     methods |-> methods,
     step_defaults |-> [s1 |-> s1, s2 |-> StepDefault("gemini", "normal", "gemini_auto")]]

\* The skill files of one phase: which methods are enabled, which are the
\* defaults, and the first step's defaults.
SkillFiles(skill) ==
    {SkillFile(skill, d, m, s1) :
        d \in {<<"m1">>, <<"m2", "m1">>, <<"m9">>, << >>},
        m \in {[m1 |-> Method(e1, <<"s1", "s2">>), m2 |-> Method(e2, <<"s2">>),
                m3 |-> Method(TRUE, <<"s1">>)] : e1 \in BOOLEAN, e2 \in BOOLEAN}
              \cup {[m1 |-> Method(TRUE, <<"s1", "s2">>)],
                    [m1 |-> Method(TRUE, <<"s1">>)],
                    [m1 |-> Method(TRUE, <<"s1", "s2">>), m2 |-> Method(FALSE, <<"s3">>)]},
        s1 \in {StepDefault("codex", "normal", "off"),
                StepDefault("codex", "analysis_only", "codex_explicit"),
                StepDefault("codex", "normal", "gemini_auto")}}

FixedSkillFile(skill) ==
    SkillFile(skill, <<"m1">>, [m1 |-> Method(TRUE, <<"s1", "s2">>)],
              StepDefault("codex", "normal", "off"))

ServantFile(tool, default_model, allowed_models) ==
    [version |-> 2, tool |-> tool, default_model |-> default_model,
     allowed_models |-> allowed_models,
     wrapper_defaults |-> [timeout_ms |-> 600, timeout_mode |-> "enforce"],
     web_capabilities |-> [modes |-> <<"off">>]]

ServantFiles(codex_default) ==
    [codex |-> ServantFile("codex", codex_default, <<"c1", "c2", "c3">>),
     gemini |-> ServantFile("gemini", "g1", <<"g1", "g2">>),
     copilot |-> ServantFile("copilot", "p1", <<"p1">>)]

\* The configs-v2 roots: every plan skill file under valid servants, and a
\* servant file whose default model is not allowed.
ConfigsV2 ==
    {[skills |-> [plan |-> s, impl |-> FixedSkillFile("impl"), review |-> FixedSkillFile("review")],
      servants |-> ServantFiles("c1")] : s \in SkillFiles("plan")}
    \cup {[skills |-> [plan |-> FixedSkillFile("plan"), impl |-> FixedSkillFile("impl"),
                       review |-> FixedSkillFile("review")],
           servants |-> ServantFiles("x9")]}

StepOverrideChoices ==
    {EmptyMap,
     [s1 |-> [model |-> "c3"]],
     [s1 |-> [tool |-> "gemini"]],
     [s1 |-> [tool |-> "gemini", model |-> "g2"]],
     [s1 |-> [tool |-> "gemini", model |-> "c2"]],
     [s2 |-> [tool |-> "codex"]],
     [s2 |-> [tool |-> "codex", web_research_mode |-> "off", default_mode |-> "analysis_only"]],
     [s1 |-> [tool |-> "gemini", web_research_mode |-> "gemini_auto"]],
     [s1 |-> [web_research_mode |-> "gemini_auto"]],
     [s1 |-> [tool |-> "copilot", web_research_mode |-> "off"]],
     [s9 |-> EmptyMap]}

\* The plan-phase override nodes of a manifest.
PhaseOverrideChoices ==
    {OmitNone(OmitEmpty([method_id |-> mid, tool_models |-> tm, step_overrides |-> so],
                        {"tool_models", "step_overrides"}), {"method_id"}) :
        mid \in {None, "m1", "m2", "m9"},
        tm \in {EmptyMap, [codex |-> "c2"], [gemini |-> "g2", codex |-> "c2"], [codex |-> "x9"]},
        so \in StepOverrideChoices}

\* The task manifests of the v2 command: without config_v2, or with overrides
\* for the plan phase.
ManifestsV2 ==
    {EmptyMap} \cup {[config_v2 |-> [phase_overrides |-> [plan |-> n]]] : n \in PhaseOverrideChoices}

\* --phase, --method-id, --step-id and --manifest of the v2 command.
ArgsV2 ==
    [phase : {"plan", "impl"}, method_id : {None, "m1", "m3", "m9"},
     step_id : {None, "s1", "s9"}, manifest : {None, "task.yaml"}]

\* config_resolve_v2._main line 177: load_and_validate_v2_config.
LoadConfigV2 ==
    /\ pc = "start"
    /\ LET v == load_and_validate_v2_config(cfg2)
       IN  /\ pc' = IF v.ok THEN "loaded" ELSE "rejected_config"
           /\ result2' = IF v.ok THEN result2 ELSE v
    /\ UNCHANGED <<cfg, manifest, args, result, filt, cfg2, overrides2, args2, root, out>>

\* config_resolve_v2._main lines 178-183: the manifest is loaded and its
\* overrides are normalised.
LoadManifestV2 ==
    /\ pc = "loaded"
    /\ \E a \in ArgsV2, doc \in ManifestsV2 :
        /\ a.manifest = None => doc = EmptyMap
        /\ args2' = a
        /\ manifest' = load_manifest_if_present(a.manifest, doc)
        /\ LET v == parse_manifest_v2_overrides(cfg2, manifest')
           IN  /\ pc' = IF v.ok THEN "parsed" ELSE "rejected_manifest"
               /\ overrides2' = IF v.ok THEN v.value ELSE overrides2
               /\ result2' = IF v.ok THEN result2 ELSE v
    /\ UNCHANGED <<cfg, args, result, filt, cfg2, root, out>>

\* config_resolve_v2._main lines 184-196: resolve, then print or fail.
ResolveV2 ==
    /\ pc = "parsed"
    /\ result2' = resolve_v2(cfg2, args2.phase, overrides2, args2.method_id, args2.step_id)
    /\ pc' = IF result2'.ok THEN "done" ELSE "rejected_plan"
    /\ UNCHANGED <<cfg, manifest, args, result, filt, cfg2, overrides2, args2, root, out>>

InitV2 ==
    /\ pc = "start"
    /\ cfg2 \in ConfigsV2
    /\ manifest = EmptyMap
    /\ overrides2 = EmptyMap
    /\ args2 = [phase |-> "plan", method_id |-> None, step_id |-> None, manifest |-> None]
    /\ result2 = NoValue
    /\ root = EmptyMap
    /\ out = NoValue
    /\ cfg = EmptyMap
    /\ args = EmptyMap
    /\ result = NoValue
    /\ filt = IdleFilter

NextV2 == LoadConfigV2 \/ LoadManifestV2 \/ ResolveV2

SpecV2 == InitV2 /\ [][NextV2]_vars
\* ------------------------------------------------------------------ properties of the v2 resolve command

\* The v2 command has resolved, or failed to resolve, a validated config under
\* an accepted manifest.
ResolvedV2 == pc \in {"done", "rejected_plan"}

\* What the manifest document itself says for the requested phase.
RawPhaseNode == GetMap(GetMap(GetMap(manifest, "config_v2"), "phase_overrides"), args2.phase)

\* The method id the stated precedence selects.
ExpectedMethod ==
    IF args2.method_id # None /\ args2.method_id # "" THEN args2.method_id
    ELSE IF "method_id" \in DOMAIN RawPhaseNode THEN RawPhaseNode.method_id
    ELSE cfg2.skills[args2.phase].default_method_ids[1]

ExpectedMethodUsable ==
    /\ ExpectedMethod \in DOMAIN cfg2.skills[args2.phase].methods
    /\ cfg2.skills[args2.phase].methods[ExpectedMethod].enabled

\* C9: the selected method id is the runtime-supplied one when given, else the
\* manifest-declared one when given, else the first default of the phase;
\* resolve_v2 returns a result only if that method is defined and enabled, and
\* raises otherwise.
C9_MethodSelection ==
    ResolvedV2 =>
        /\ result2.ok => (result2.selected_method_id = ExpectedMethod /\ ExpectedMethodUsable)
        /\ ~ExpectedMethodUsable => ~result2.ok

\* A result was returned for the runtime method id, which differs from the
\* manifest's, which differs from the first default.
C9_Witness ==
    /\ pc = "done"
    /\ args2.method_id = "m3"
    /\ RawPhaseNode = [method_id |-> "m2"]
    /\ cfg2.skills.plan.default_method_ids = <<"m1">>
    /\ result2.selected_method_id = "m3"

\* The first default method is disabled, nothing overrides it, and the
\* resolution is refused.
DisabledDefaultRefused ==
    /\ pc = "rejected_plan"
    /\ args2.method_id = None
    /\ "method_id" \notin DOMAIN RawPhaseNode
    /\ ~cfg2.skills[args2.phase].methods[ExpectedMethod].enabled
    /\ result2.error = "resolved method_id is disabled"

\* A method named by the manifest and accepted by the normaliser is disabled,
\* nothing overrides it, and the resolution is refused.
DisabledManifestMethodRefused ==
    /\ pc = "rejected_plan"
    /\ args2.method_id = None
    /\ "method_id" \in DOMAIN RawPhaseNode
    /\ result2.error = "resolved method_id is disabled"

\* What the manifest document itself says for one step of the requested phase.
RawStepOverride(sid) == GetMap(GetMap(RawPhaseNode, "step_overrides"), sid)

\* The effective tool of a step: the step override's tool, else the default tool.
EffectiveTool(sid) ==
    IF "tool" \in DOMAIN RawStepOverride(sid) THEN RawStepOverride(sid).tool
    ELSE cfg2.skills[args2.phase].step_defaults[sid].default_tool

\* The model the stated precedence gives a step.
ExpectedStepModel(sid) ==
    IF "model" \in DOMAIN RawStepOverride(sid) THEN RawStepOverride(sid).model
    ELSE IF EffectiveTool(sid) \in DOMAIN GetMap(RawPhaseNode, "tool_models")
         THEN RawPhaseNode.tool_models[EffectiveTool(sid)]
    ELSE cfg2.servants[EffectiveTool(sid)].default_model

\* C10: for every step resolved by resolve_v2 the model is the step-level
\* override model if the manifest gives one, else the phase-level tool_models
\* entry for the step's effective tool, else that tool's servant default_model;
\* and the model is a member of the effective tool's allowed_models.
C10_StepModelPrecedence ==
    (ResolvedV2 /\ result2.ok) =>
        \A sid \in DOMAIN result2.step_agent_model_map :
            LET step == result2.step_agent_model_map[sid]
            IN  /\ step.tool = EffectiveTool(sid)
                /\ step.model = ExpectedStepModel(sid)
                /\ \E i \in DOMAIN cfg2.servants[EffectiveTool(sid)].allowed_models :
                       cfg2.servants[EffectiveTool(sid)].allowed_models[i] = step.model

\* A step was resolved whose step-level model differs from the phase-level
\* entry of its tool, which differs from the servant's default.
C10_Witness ==
    /\ pc = "done"
    /\ "s1" \in DOMAIN result2.step_agent_model_map
    /\ RawStepOverride("s1") = [model |-> "c3"]
    /\ GetMap(RawPhaseNode, "tool_models") = [gemini |-> "g2", codex |-> "c2"]
    /\ cfg2.servants.codex.default_model = "c1"
    /\ result2.step_agent_model_map.s1.model = "c3"

\* A step was resolved with the phase-level model of a tool that the step
\* override chose.
StepToolOverrideUsesPhaseModel ==
    /\ pc = "done"
    /\ RawStepOverride("s1") = [tool |-> "gemini"]
    /\ result2.step_agent_model_map.s1 =
           [tool |-> "gemini", model |-> "g2", default_mode |-> "normal", web_research_mode |-> "off"]
\* The one web research mode that belongs to each tool.
OwnWebMode == [codex |-> "codex_explicit", gemini |-> "gemini_auto", copilot |-> "copilot_mcp"]

\* What the manifest document itself says for the plan phase.
RawPlanNode == GetMap(GetMap(GetMap(manifest, "config_v2"), "phase_overrides"), "plan")

\* The manifest holds a step override of the plan phase that changes only the
\* tool, for a step whose default mode belongs to another tool.
ToolOnlyOverrideOfForeignMode ==
    \E sid \in DOMAIN GetMap(RawPlanNode, "step_overrides") :
        LET node == RawPlanNode.step_overrides[sid]
        IN  /\ DOMAIN node = {"tool"}
            /\ node.tool \in DOMAIN OwnWebMode
            /\ sid \in DOMAIN cfg2.skills.plan.step_defaults
            /\ cfg2.skills.plan.step_defaults[sid].web_research_mode
                   \notin {"off", OwnWebMode[node.tool]}

\* C11: in every result of resolve_v2 each resolved step's mode is off or the
\* one mode belonging to the step's tool; and a manifest whose step override
\* changes only the tool, while the step default carries another tool's mode,
\* is rejected.
C11_ToolWebModeCompatible ==
    /\ (ResolvedV2 /\ result2.ok) =>
           \A sid \in DOMAIN result2.step_agent_model_map :
               LET step == result2.step_agent_model_map[sid]
               IN  step.web_research_mode \in {"off", OwnWebMode[step.tool]}
    /\ ToolOnlyOverrideOfForeignMode => pc = "rejected_manifest"

\* A manifest that moves step s2 to codex, while the step's default mode is
\* gemini_auto, was refused for the incompatible pair.
C11_Witness ==
    /\ pc = "rejected_manifest"
    /\ RawPlanNode = [step_overrides |-> [s2 |-> [tool |-> "codex"]]]
    /\ result2.error = "is not compatible with tool"

\* A step was resolved with a mode other than off.
ResolvedWithOwnWebMode ==
    /\ pc = "done"
    /\ \E sid \in DOMAIN result2.step_agent_model_map :
           result2.step_agent_model_map[sid].web_research_mode # "off"
\* The v2 config root has been accepted by load_and_validate_v2_config.
AcceptedV2 == pc \notin {"start", "rejected_config"}

\* The step ids that the steps lists of a phase's methods name.
ReferencedSteps(phase) ==
    {s \in {"s1", "s2", "s3"} :
        \E m \in DOMAIN cfg2.skills[phase].methods :
            \E i \in DOMAIN cfg2.skills[phase].methods[m].steps :
                cfg2.skills[phase].methods[m].steps[i] = s}

\* C12: every phase file accepted by the v2 validator has bijective step
\* coverage: the steps named by the methods of the phase, enabled or not, are
\* exactly the keys of its step_defaults; a phase file without it is rejected.
C12_BijectiveStepCoverage ==
    AcceptedV2 =>
        \A phase \in {"plan", "impl", "review"} :
            ReferencedSteps(phase) = DOMAIN cfg2.skills[phase].step_defaults

\* A phase file whose disabled method names a step without a step default was
\* rejected.
C12_Witness ==
    /\ pc = "rejected_config"
    /\ "m2" \in DOMAIN cfg2.skills.plan.methods
    /\ ~cfg2.skills.plan.methods.m2.enabled
    /\ cfg2.skills.plan.methods.m2.steps = <<"s3">>
    /\ "s3" \notin DOMAIN cfg2.skills.plan.step_defaults
    /\ result2.error = "step missing from step_defaults"

\* A phase file with a step default that no method names was rejected.
OrphanStepDefaultRejected ==
    /\ pc = "rejected_config"
    /\ ReferencedSteps("plan") = {"s1"}
    /\ result2.error = "step is not referenced by any method"
\* ------------------------------------------------------------------ config roots on disk

\* A file of a config root is a record: its kind and, for a YAML mapping, the
\* mapping.  A directory is a function from file names to files, and a file
\* name is the pair of its stem and its extension ("codex.yaml" is
\* <<"codex", "yaml">>), so that name.endswith(".yaml") is a test of the pair.
Absent == [kind |-> "absent"]
Unparseable == [kind |-> "unparseable"]
EmptyFile == [kind |-> "empty"]
ScalarFile == [kind |-> "scalar"]
Mapping(doc) == [kind |-> "mapping", data |-> doc]

\* An exception that is not a ValidationError (yaml.YAMLError, KeyError).
Raise(exception, msg) == [ok |-> FALSE, exception |-> exception, error |-> msg]

IsValidationError(r) == ~r.ok /\ "exception" \notin DOMAIN r

\* os.path.join(root, subdir, filename) read from the disk.
FileAt(r, subdir, filename) ==
    IF filename \in DOMAIN GetMap(r, subdir) THEN r[subdir][filename] ELSE Absent

\* config_validate._load_yaml and config_validate_v2._load_yaml (the same code).
_load_yaml(file, path) ==
    IF file.kind = "absent" THEN _die(path, "file not found")
    ELSE IF file.kind = "unparseable" THEN Raise("YAMLError", "YAML parse failed")
    ELSE IF file.kind = "empty" THEN _die(path, "file is empty")
    ELSE IF file.kind = "scalar" THEN _die(path, "top-level must be a mapping")
    ELSE Val(file.data)

SERVANT_FILES ==
    [codex |-> <<"servant", <<"codex", "yaml">>>>,
     gemini |-> <<"servant", <<"gemini", "yaml">>>>,
     copilot |-> <<"servant", <<"copilot", "yaml">>>>]

PIPELINE_FILES ==
    [impl |-> <<"pipeline", <<"impl-pipeline", "yaml">>>>,
     review |-> <<"pipeline", <<"review-pipeline", "yaml">>>>,
     plan |-> <<"pipeline", <<"plan-pipeline", "yaml">>>>]

\* raw[key] of a Python dict literal: the first key that is missing raises KeyError.
FirstMissingKey(raw, keys) ==
    keys[CHOOSE i \in DOMAIN keys :
            keys[i] \notin DOMAIN raw /\ \A j \in 1..(i - 1) : keys[j] \in DOMAIN raw]

\* Faulty variant of _normalize_servant_file: the full form loses the
\* file's purpose_models.
_normalize_servant_file_no_purpose(raw, servant, path) ==
    IF "version" \in DOMAIN raw \/ "tool" \in DOMAIN raw
    THEN IF ~({"default_model", "allowed_models", "wrapper_defaults"} \subseteq DOMAIN raw)
         THEN Raise("KeyError",
                    FirstMissingKey(raw, <<"default_model", "allowed_models", "wrapper_defaults">>))
         ELSE Val([default_model |-> raw.default_model,
                   allowed_models |-> raw.allowed_models,
                   wrapper_defaults |-> raw.wrapper_defaults,
                   purpose_models |-> EmptyMap,
                   purpose_efforts |-> GetMap(raw, "purpose_efforts")])
    ELSE IF ~_ensure_keys(raw, SERVANT_KEYS) THEN _die(path, "unknown keys")
    ELSE Val(raw)

\* config_validate._normalize_servant_file
_normalize_servant_file(raw, servant, path) ==
    IF "version" \in DOMAIN raw \/ "tool" \in DOMAIN raw
    THEN IF ~_ensure_keys(raw, SERVANT_KEYS \cup {"version", "tool"})
         THEN _die(path, "unknown keys")
         ELSE IF "version" \notin DOMAIN raw \/ raw.version # 1
         THEN _die(path \o <<"version">>, "must be 1")
         ELSE IF "tool" \notin DOMAIN raw \/ raw.tool # servant
         THEN _die(path \o <<"tool">>, "must be the servant's name")
         ELSE IF ~({"default_model", "allowed_models", "wrapper_defaults"} \subseteq DOMAIN raw)
         THEN Raise("KeyError",
                    FirstMissingKey(raw, <<"default_model", "allowed_models", "wrapper_defaults">>))
         ELSE Val([default_model |-> raw.default_model,
                   allowed_models |-> raw.allowed_models,
                   wrapper_defaults |-> raw.wrapper_defaults,
                   purpose_models |-> GetMap(raw, "purpose_models"),
                   purpose_efforts |-> GetMap(raw, "purpose_efforts")])
    ELSE IF ~_ensure_keys(raw, SERVANT_KEYS) THEN _die(path, "unknown keys")
    ELSE Val(raw)

\* config_validate._normalize_pipeline_file
_normalize_pipeline_file(raw, pipeline, path) ==
    IF "version" \in DOMAIN raw \/ "pipeline" \in DOMAIN raw
    THEN IF ~_ensure_keys(raw, {"version", "pipeline", "default_profile", "profiles"})
         THEN _die(path, "unknown keys")
         ELSE IF "version" \notin DOMAIN raw \/ raw.version # 1
         THEN _die(path \o <<"version">>, "must be 1")
         ELSE IF "pipeline" \notin DOMAIN raw \/ raw.pipeline # pipeline
         THEN _die(path \o <<"pipeline">>, "must be the pipeline's name")
         ELSE IF ~({"default_profile", "profiles"} \subseteq DOMAIN raw)
         THEN Raise("KeyError", FirstMissingKey(raw, <<"default_profile", "profiles">>))
         ELSE Val([default_profile |-> raw.default_profile, profiles |-> raw.profiles])
    ELSE IF ~_ensure_keys(raw, {"default_profile", "profiles"}) THEN _die(path, "unknown keys")
    ELSE Val(raw)

\* One servant file loaded and normalised (load_and_validate_split_config lines 408-411).
LoadServantFile(r, servant) ==
    LET path == SERVANT_FILES[servant]
        raw == _load_yaml(FileAt(r, path[1], path[2]), path)
    IN  IF ~raw.ok THEN raw ELSE _normalize_servant_file(raw.value, servant, path)

\* One pipeline file loaded and normalised (load_and_validate_split_config lines 413-416).
LoadPipelineFile(r, pipeline) ==
    LET path == PIPELINE_FILES[pipeline]
        raw == _load_yaml(FileAt(r, path[1], path[2]), path)
    IN  IF ~raw.ok THEN raw ELSE _normalize_pipeline_file(raw.value, pipeline, path)

\* config_validate.load_and_validate_split_config: the config tree, or the
\* first exception raised.
load_and_validate_split_config(r) ==
    LET files == FirstErr([i \in 1..6 |->
                     IF i <= 3 THEN LoadServantFile(r, SERVANT_ORDER[i])
                     ELSE LoadPipelineFile(r, PIPELINE_ORDER[i - 3])])
        tree == [version |-> 1,
                 servants |-> [s \in SERVANT_NAMES |-> LoadServantFile(r, s).value],
                 pipelines |-> [p \in {"impl", "review", "plan"} |-> LoadPipelineFile(r, p).value]]
    IN  IF ~files.ok THEN files
        ELSE IF ~validate_runtime_config_dict(tree).ok THEN validate_runtime_config_dict(tree)
        ELSE Val(tree)

\* ------------------------------------------------------------------ v2 config root

EXPECTED_FILES ==
    [skills |-> {<<"plan", "yaml">>, <<"impl", "yaml">>, <<"review", "yaml">>},
     servants |-> {<<"codex", "yaml">>, <<"gemini", "yaml">>, <<"copilot", "yaml">>},
     policies |-> {<<"routing", "yaml">>, <<"review_parallel", "yaml">>, <<"web_evidence", "yaml">>}]

OPTIONAL_FILES == EmptyMap

\* config_validate_v2._validate_expected_files
_validate_expected_files(r, subdir) ==
    LET found == {name \in DOMAIN GetMap(r, subdir) : name[2] = "yaml"}
        expected == EXPECTED_FILES[subdir]
        optional == IF subdir \in DOMAIN OPTIONAL_FILES THEN OPTIONAL_FILES[subdir] ELSE {}
    IN  IF subdir \notin DOMAIN r THEN _die(<<subdir>>, "directory not found")
        ELSE IF expected \ found # {} THEN _die(<<subdir>>, "missing required files")
        ELSE IF (found \ expected) \ optional # {} THEN _die(<<subdir>>, "unknown config files")
        ELSE OK

\* One file of a v2 root loaded and handed to its validator
\* (load_and_validate_v2_config lines 627-637).
LoadSkillFile(r, phase) ==
    LET node == _load_yaml(FileAt(r, "skills", <<phase, "yaml">>), <<"skills", phase>>)
    IN  IF ~node.ok THEN node ELSE _validate_skill_file(node.value, phase, <<"skills", phase>>)

LoadServantFileV2(r, tool) ==
    LET node == _load_yaml(FileAt(r, "servants", <<tool, "yaml">>), <<"servants", tool>>)
    IN  IF ~node.ok THEN node ELSE _validate_servant_file(node.value, tool, <<"servants", tool>>)

POLICY_ORDER == <<"routing", "review_parallel", "web_evidence">>

\* The policy files are loaded last (lines 639-656).  The candidate roots carry
\* policy documents that the three policy validators accept, so only the
\* loading of these files can fail.
LoadPolicyFile(r, policy) ==
    LET node == _load_yaml(FileAt(r, "policies", <<policy, "yaml">>), <<"policies", policy>>)
    IN  IF ~node.ok THEN node ELSE OK

\* config_validate_v2.load_and_validate_v2_config on a root on disk: the
\* config tree, or the first exception raised.
load_and_validate_v2_root(r) ==
    LET checks ==
          FirstErr(
            << FirstErr([i \in 1..3 |->
                   _validate_expected_files(r, <<"skills", "servants", "policies">>[i])]),
               FirstErr([i \in DOMAIN PHASES |-> LoadSkillFile(r, PHASES[i])]),
               FirstErr([i \in DOMAIN TOOLS |-> LoadServantFileV2(r, TOOLS[i])]),
               FirstErr([i \in DOMAIN POLICY_ORDER |-> LoadPolicyFile(r, POLICY_ORDER[i])]) >>)
    IN  IF ~checks.ok THEN checks
        ELSE Val([skills |-> [p \in Range(PHASES) |-> r.skills[<<p, "yaml">>].data],
                  servants |-> [t \in Range(TOOLS) |-> r.servants[<<t, "yaml">>].data]])

\* ------------------------------------------------------------------ command-line runs

\* --manifest: no path given, or the file at the given path.
NoPath == [kind |-> "no path"]

\* load_manifest_if_present of both validators, on the --manifest argument.
LoadManifestArg(file) ==
    IF file.kind = "no path" THEN Val(NoManifest) ELSE _load_yaml(file, <<"manifest">>)

\* What the interpreter prints for an exception that no handler catches.
Traceback(r) ==
    << [text |-> "Traceback (most recent call last):"],
       [text |-> "stack frames"],
       [text |-> r.exception] >>

\* The end of a _main: the except clauses, the printing and the return code.
\* r is what the try block computed or raised, caught the exception classes
\* handled besides ValidationError.
Exit(r, prefix, caught) ==
    IF r.ok THEN [stdout |-> <<r.value>>, stderr |-> << >>, exit |-> 0]
    ELSE IF IsValidationError(r) \/ r.exception \in caught
    THEN [stdout |-> << >>, stderr |-> <<[prefix |-> prefix, error |-> r]>>, exit |-> 1]
    ELSE [stdout |-> << >>, stderr |-> Traceback(r), exit |-> 1]

\* config_validate._main lines 554-571
ValidateMain(r, manifest_file, print_choices) ==
    LET c == load_and_validate_split_config(r)
        m == LoadManifestArg(manifest_file)
        v == IF m.value = NoManifest THEN OK ELSE validate_manifest_extensions(c.value, m.value)
        tried == IF ~c.ok THEN c
                 ELSE IF ~m.ok THEN m
                 ELSE IF ~v.ok THEN v
                 ELSE Val(IF print_choices THEN "choices catalog" ELSE "OK")
    IN  Exit(tried, "CONFIG VALIDATION ERROR:", {"YAMLError"})

\* config_resolve._main lines 516-541, mode dispatch
ResolveDispatchMain(r, manifest_file, plan_name, intent_default) ==
    LET c == load_and_validate_split_config(r)
        m == LoadManifestArg(manifest_file)
        v == validate_manifest_extensions(c.value, m.value)
        resolved == resolve_dispatch(c.value, m.value, plan_name, intent_default)
        tried == IF ~c.ok THEN c
                 ELSE IF ~m.ok THEN m
                 ELSE IF m.value = NoManifest
                 THEN Err("manifest is required for dispatch resolution")
                 ELSE IF ~v.ok THEN v
                 ELSE IF ~resolved.ok THEN resolved
                 ELSE Val(resolved)
    IN  Exit(tried, "CONFIG RESOLVE ERROR:", {})

\* config_resolve._main lines 516-541, mode plan
ResolvePlanMain(r, profile, model_overrides) ==
    LET c == load_and_validate_split_config(r)
        resolved == resolve_plan_pipeline(c.value, profile, model_overrides)
        tried == IF ~c.ok THEN c
                 ELSE IF ~resolved.ok THEN resolved
                 ELSE Val(resolved)
    IN  Exit(tried, "CONFIG RESOLVE ERROR:", {})

\* config_validate_v2._main lines 877-896
ValidateV2Main(r, manifest_file, print_choices) ==
    LET c == load_and_validate_v2_root(r)
        m == LoadManifestArg(manifest_file)
        v == parse_manifest_v2_overrides(c.value, m.value)
        tried == IF ~c.ok THEN c
                 ELSE IF ~m.ok THEN m
                 ELSE IF ~v.ok THEN v
                 ELSE Val(IF print_choices THEN "choices catalog" ELSE "OK")
    IN  Exit(tried, "CONFIG V2 VALIDATION ERROR:", {"YAMLError"})

\* config_resolve_v2._main lines 175-196
ResolveV2Main(r, manifest_file, phase, method_id, step_id) ==
    LET c == load_and_validate_v2_root(r)
        m == LoadManifestArg(manifest_file)
        overrides == parse_manifest_v2_overrides(c.value, m.value)
        resolved == resolve_v2(c.value, phase, overrides.value, method_id, step_id)
        tried == IF ~c.ok THEN c
                 ELSE IF ~m.ok THEN m
                 ELSE IF ~overrides.ok THEN overrides
                 ELSE IF ~resolved.ok THEN resolved
                 ELSE Val(resolved)
    IN  Exit(tried, "CONFIG V2 RESOLVE ERROR:", {})

\* ------------------------------------------------------------------ candidate roots

With(node, key, value) == (key :> value) @@ node

Drop(node, key) == [k \in DOMAIN node \ {key} |-> node[k]]

BaseTree == Config(RichServants, FixedImplPipeline, FixedReviewPipeline, FixedPlanPipeline)

\* Trees whose models are or are not allowed for their servant.
ModelTrees ==
    {Config(sv, FixedImplPipeline, FixedReviewPipeline, FixedPlanPipeline) : sv \in ServantsChoices}
    \cup {Config(BareServants,
                 [default_profile |-> "safe_impl",
                  profiles |-> [safe_impl |-> Profile(<<codex_review, gemini_brief, codex_impl>>,
                                                      EmptyMap, EmptyMap, ov[1], ov[2])]],
                 FixedReviewPipeline, FixedPlanPipeline) : ov \in ImplOverrideChoices}

\* The base tree with one required field of one file left out.
MissingFieldTrees ==
    {[BaseTree EXCEPT !.servants[s] = Drop(@, k)] :
        s \in {"codex", "copilot"}, k \in {"default_model", "allowed_models", "wrapper_defaults"}}
    \cup {[BaseTree EXCEPT !.pipelines[p] = Drop(@, k)] :
            p \in {"impl", "plan"}, k \in {"default_profile", "profiles"}}

\* The base tree with one key outside the allowed set of one mapping.
UnknownKeyTrees ==
    { [BaseTree EXCEPT !.servants.gemini = With(@, "bogus", "x")],
      [BaseTree EXCEPT !.servants.codex.wrapper_defaults = With(@, "bogus", "x")],
      [BaseTree EXCEPT !.servants.copilot.wrapper_defaults = With(@, "effort", "low")],
      [BaseTree EXCEPT !.servants.codex.purpose_models = With(@, "bogus", "c1")],
      [BaseTree EXCEPT !.servants.codex.purpose_efforts = With(@, "bogus", "low")],
      [BaseTree EXCEPT !.pipelines.review = With(@, "bogus", "x")],
      [BaseTree EXCEPT !.pipelines.impl.profiles.safe_impl = With(@, "bogus", "x")] }
    \cup {[BaseTree EXCEPT !.pipelines[pf[1]].profiles[pf[2]] = With(@, "flags", pf[3])] :
            pf \in { <<"impl", "safe_impl", [bogus |-> TRUE]>>,
                     <<"impl", "safe_impl", [enable_stage2_codex |-> TRUE]>>,
                     <<"review", "codex_only", [bogus |-> TRUE]>>,
                     <<"plan", "default", [enable_brief |-> TRUE]>> }}
    \cup {[BaseTree EXCEPT !.pipelines[po[1]].profiles[po[2]] = With(@, "options", po[3])] :
            po \in { <<"impl", "safe_impl", [bogus |-> "x"]>>,
                     <<"review", "codex_only", [impl_mode |-> "safe"]>>,
                     <<"plan", "default", [review_mode |-> "cross"]>> }}

V1Trees == ModelTrees \cup MissingFieldTrees \cup UnknownKeyTrees

FORMS == {"compact", "full"}

\* A node written in the compact form, or in the full form with its tag.
InForm(form, tag, node) == IF form = "full" THEN tag @@ node ELSE node

\* The six files of a v1 root that carries the tree's nodes in the given form.
V1Root(form, tree) ==
    [servant |->
        [n \in {SERVANT_FILES[s][2] : s \in SERVANT_NAMES} |->
            Mapping(InForm(form, [version |-> 1, tool |-> n[1]], tree.servants[n[1]]))],
     pipeline |->
        [n \in {PIPELINE_FILES[p][2] : p \in DOMAIN PIPELINE_FILES} |->
            LET p == CHOOSE q \in DOMAIN PIPELINE_FILES : PIPELINE_FILES[q][2] = n
            IN  Mapping(InForm(form, [version |-> 1, pipeline |-> p], tree.pipelines[p]))]]

WithFile(r, subdir, name, file) == [r EXCEPT ![subdir] = With(@, name, file)]

WithoutFile(r, subdir, name) == [r EXCEPT ![subdir] = Drop(@, name)]

BaseRoot == V1Root("compact", BaseTree)

\* The base root with one file missing, unreadable, mistagged or added.
V1FileFaults ==
    {WithoutFile(BaseRoot, "servant", <<"gemini", "yaml">>),
     WithoutFile(BaseRoot, "pipeline", <<"plan-pipeline", "yaml">>),
     WithFile(BaseRoot, "servant", <<"extra", "yaml">>, Mapping(BaseTree.servants.codex)),
     WithFile(BaseRoot, "pipeline", <<"notes", "txt">>, ScalarFile),
     WithFile(BaseRoot, "servant", <<"codex", "yaml">>,
              Mapping([version |-> 2, tool |-> "codex"] @@ BaseTree.servants.codex)),
     WithFile(BaseRoot, "servant", <<"codex", "yaml">>,
              Mapping([version |-> 1, tool |-> "gemini"] @@ BaseTree.servants.codex)),
     WithFile(BaseRoot, "pipeline", <<"impl-pipeline", "yaml">>,
              Mapping([pipeline |-> "review"] @@ BaseTree.pipelines.impl))}
    \cup {WithFile(BaseRoot, d[1], d[2], f) :
            d \in {<<"servant", <<"copilot", "yaml">>>>, <<"pipeline", <<"impl-pipeline", "yaml">>>>},
            f \in {Unparseable, EmptyFile, ScalarFile}}

V1Roots == {V1Root(form, t) : form \in FORMS, t \in V1Trees} \cup V1FileFaults

PolicyDoc == [version |-> 2]

\* The nine files of a v2 root that carries the tree's skill and servant nodes.
V2Root(tree) ==
    [skills |-> [n \in EXPECTED_FILES.skills |-> Mapping(tree.skills[n[1]])],
     servants |-> [n \in EXPECTED_FILES.servants |-> Mapping(tree.servants[n[1]])],
     policies |-> [n \in EXPECTED_FILES.policies |-> Mapping(PolicyDoc)]]

V2Trees ==
    {[skills |-> [plan |-> s, impl |-> FixedSkillFile("impl"), review |-> FixedSkillFile("review")],
      servants |-> ServantFiles(d)] :
        s \in {FixedSkillFile("plan"),
               SkillFile("plan", <<"m2", "m1">>,
                         [m1 |-> Method(TRUE, <<"s1", "s2">>), m2 |-> Method(FALSE, <<"s2">>),
                          m3 |-> Method(TRUE, <<"s1">>)],
                         StepDefault("codex", "analysis_only", "codex_explicit")),
               SkillFile("plan", <<"m1">>, [m1 |-> Method(TRUE, <<"s1">>)],
                         StepDefault("codex", "normal", "off"))},
        d \in {"c1", "x9"}}

BaseRootV2 ==
    V2Root([skills |-> [p \in Range(PHASES) |-> FixedSkillFile(p)], servants |-> ServantFiles("c1")])

V2FileFaults ==
    {WithoutFile(BaseRootV2, "skills", <<"impl", "yaml">>),
     Drop(BaseRootV2, "policies"),
     WithFile(BaseRootV2, "servants", <<"extra", "yaml">>, Mapping(ServantFiles("c1").codex)),
     WithFile(BaseRootV2, "policies", <<"notes", "txt">>, ScalarFile),
     WithFile(BaseRootV2, "servants", <<"gemini", "yaml">>, Unparseable),
     WithFile(BaseRootV2, "skills", <<"plan", "yaml">>, EmptyFile),
     WithFile(BaseRootV2, "policies", <<"routing", "yaml">>, Unparseable)}

V2Roots == {V2Root(t) : t \in V2Trees} \cup V2FileFaults

\* The documents of the manifest files: routing blocks with and without a
\* key outside the allowed sets, and config_v2 overrides.
CliManifests ==
    { EmptyMap,
      [task |-> "t1"],
      [routing |-> [intent |-> "safe_impl", model |-> [codex |-> "c3"]]],
      [routing |-> [model |-> [codex |-> "x9"]]],
      [routing |-> [pipeline |-> [flags |-> [enable_review |-> FALSE],
                                  options |-> [impl_mode |-> "one_shot"]]]],
      [routing |-> [bogus |-> "x"]],
      [routing |-> [model |-> [bogus |-> "c1"]]],
      [routing |-> [pipeline |-> [bogus |-> "x"]]],
      [routing |-> [pipeline |-> [flags |-> [bogus |-> TRUE]]]],
      [routing |-> [pipeline |-> [options |-> [bogus |-> "x"]]]],
      [config_v2 |-> [phase_overrides |-> [plan |-> [tool_models |-> [codex |-> "c2"]]]]],
      [config_v2 |-> [phase_overrides |-> [plan |-> [tool_models |-> [codex |-> "x9"]]]]] }

ManifestFiles ==
    {NoPath, Absent, Unparseable, EmptyFile, ScalarFile} \cup {Mapping(m) : m \in CliManifests}

\* ------------------------------------------------------------------ the five commands

\* python config_validate.py --config-root R [--manifest M] [--print-choices]
RunValidate ==
    /\ pc = "start"
    /\ \E m \in ManifestFiles, print_choices \in BOOLEAN :
        /\ manifest' = m
        /\ args' = [command |-> "validate", print_choices |-> print_choices]
        /\ out' = ValidateMain(root, m, print_choices)
    /\ pc' = "exited"
    /\ UNCHANGED <<cfg, result, filt, cfg2, overrides2, args2, result2, root>>

\* python config_resolve.py dispatch --config-root R --manifest M ...
RunResolveDispatch ==
    /\ pc = "start"
    /\ \E m \in ManifestFiles, a \in DispatchArgs :
        /\ manifest' = m
        /\ args' = [command |-> "resolve dispatch", plan_name |-> a.plan_name,
                    intent_default |-> a.intent_default]
        /\ out' = ResolveDispatchMain(root, m, a.plan_name, a.intent_default)
    /\ pc' = "exited"
    /\ UNCHANGED <<cfg, result, filt, cfg2, overrides2, args2, result2, root>>

\* python config_resolve.py plan --config-root R [--profile P] [--codex-model M] ...
RunResolvePlan ==
    /\ pc = "start"
    /\ \E profile \in {None, "default", "nightly"}, codex_model \in {None, "c2", "x9"} :
        /\ args' = [command |-> "resolve plan", profile |-> profile,
                    model_overrides |-> [copilot |-> None, gemini |-> None, codex |-> codex_model]]
        /\ out' = ResolvePlanMain(root, profile, args'.model_overrides)
    /\ pc' = "exited"
    /\ UNCHANGED <<cfg, manifest, result, filt, cfg2, overrides2, args2, result2, root>>

\* python config_validate_v2.py --config-root R [--manifest M] [--print-choices]
RunValidateV2 ==
    /\ pc = "start"
    /\ \E m \in ManifestFiles, print_choices \in BOOLEAN :
        /\ manifest' = m
        /\ args' = [command |-> "validate v2", print_choices |-> print_choices]
        /\ out' = ValidateV2Main(root, m, print_choices)
    /\ pc' = "exited"
    /\ UNCHANGED <<cfg, result, filt, cfg2, overrides2, args2, result2, root>>

\* python config_resolve_v2.py --config-root R --phase P [--method-id I] [--step-id S] [--manifest M]
RunResolveV2 ==
    /\ pc = "start"
    /\ \E m \in ManifestFiles, phase \in {"plan", "impl"}, method_id \in {None, "m1", "m9"},
          step_id \in {None, "s1"} :
        /\ manifest' = m
        /\ args' = [command |-> "resolve v2", phase |-> phase, method_id |-> method_id,
                    step_id |-> step_id]
        /\ out' = ResolveV2Main(root, m, phase, method_id, step_id)
    /\ pc' = "exited"
    /\ UNCHANGED <<cfg, result, filt, cfg2, overrides2, args2, result2, root>>

InitCli ==
    /\ pc = "start"
    /\ root \in V1Roots \cup V2Roots
    /\ manifest = NoPath
    /\ args = EmptyMap
    /\ out = NoValue
    /\ cfg = EmptyMap
    /\ result = NoValue
    /\ filt = IdleFilter
    /\ cfg2 = EmptyMap
    /\ overrides2 = EmptyMap
    /\ args2 = EmptyMap
    /\ result2 = NoValue

NextCli ==
    RunValidate \/ RunResolveDispatch \/ RunResolvePlan \/ RunValidateV2 \/ RunResolveV2

SpecCli == InitCli /\ [][NextCli]_vars

\* ------------------------------------------------------------------ properties of the commands

Exited == pc = "exited"

\* The document of a file of the root, or the empty mapping when the file is
\* not a readable mapping.
DocAt(subdir, filename) ==
    LET file == FileAt(root, subdir, filename)
    IN  IF file.kind = "mapping" THEN file.data ELSE EmptyMap

ServantDoc(s) == DocAt(SERVANT_FILES[s][1], SERVANT_FILES[s][2])
PipelineDoc(p) == DocAt(PIPELINE_FILES[p][1], PIPELINE_FILES[p][2])

\* The command that ran, and how it ended.
Ran(command) == Exited /\ args.command = command
Accepted == out.exit = 0
OneErrorLine(prefix) ==
    /\ out.exit = 1
    /\ out.stdout = << >>
    /\ Len(out.stderr) = 1
    /\ "prefix" \in DOMAIN out.stderr[1]
    /\ out.stderr[1].prefix = prefix

\* The models a v1 root names for servant s: its default, its purpose models,
\* and the stage_models of every profile for the stages of s.
ModelsNamedFor(s) ==
    (IF "default_model" \in DOMAIN ServantDoc(s) THEN {ServantDoc(s).default_model} ELSE {})
    \cup Range(GetMap(ServantDoc(s), "purpose_models"))
    \cup UNION {
           {GetMap(prof, "stage_models")[st] :
               st \in {k \in DOMAIN GetMap(prof, "stage_models") : Head(k) = s}} :
           prof \in UNION {Range(GetMap(PipelineDoc(p), "profiles")) : p \in {"impl", "review"}}}

\* A servant file of the root that is readable and whose default model is not
\* one of its allowed models, every file read before it being sound.
V1DefaultNotAllowed ==
    /\ ServantDoc("codex") # EmptyMap
    /\ {"default_model", "allowed_models"} \subseteq DOMAIN ServantDoc("codex")
    /\ ~InList(ServantDoc("codex").default_model, ServantDoc("codex").allowed_models)

V2DefaultNotAllowed ==
    /\ root \in {V2Root(t) : t \in V2Trees}
    /\ \A i \in DOMAIN PHASES : LoadSkillFile(root, PHASES[i]).ok
    /\ ~InList(root.servants[<<"codex", "yaml">>].data.default_model,
               root.servants[<<"codex", "yaml">>].data.allowed_models)

\* C13: a v1 root that the validate command accepts names, for each servant,
\* only models of the servant's allowed_models (default_model, purpose_models
\* values, profile stage_models values of the servant's stages); a servant
\* file whose default_model is not in allowed_models makes the v1 and the v2
\* validate command fail with a path ending in default_model and the message
\* "must be included in allowed_models".
C13_ModelsWithinAllowed ==
    /\ (Ran("validate") /\ Accepted) =>
          \A s \in SERVANT_NAMES : ModelsNamedFor(s) \subseteq Range(ServantDoc(s).allowed_models)
    /\ (Ran("validate") /\ V1DefaultNotAllowed) =>
          /\ OneErrorLine("CONFIG VALIDATION ERROR:")
          /\ out.stderr[1].error.path = <<"servants", "codex", "default_model">>
          /\ out.stderr[1].error.error = "must be included in allowed_models"
    /\ (Ran("validate v2") /\ V2DefaultNotAllowed) =>
          /\ OneErrorLine("CONFIG V2 VALIDATION ERROR:")
          /\ out.stderr[1].error.path = <<"servants", "codex", "default_model">>
          /\ out.stderr[1].error.error = "must be included in allowed_models"

\* The v1 validate command has refused a root whose codex default model is x9.
C13_Witness ==
    /\ Ran("validate")
    /\ V1DefaultNotAllowed
    /\ ServantDoc("codex").default_model = "x9"
    /\ out.exit = 1
    /\ out.stderr[1].error.error = "must be included in allowed_models"

\* Reached as well: an accepted root with purpose and stage models, and the
\* v2 refusal.
AcceptedWithStageModels ==
    /\ Ran("validate") /\ Accepted
    /\ ModelsNamedFor("codex") = {"c1", "c4"}
    /\ ModelsNamedFor("gemini") = {"g1", "g2"}

V2DefaultRefused == Ran("validate v2") /\ V2DefaultNotAllowed /\ out.exit = 1

StageModelOfOtherServantRefused ==
    /\ Ran("validate") /\ ~Accepted
    /\ "g1" \in ModelsNamedFor("codex")

\* ------------------------------------------------------------------ full form and compact form

\* The six files of the root are readable mappings and all are in the full
\* form (tagged with version 1 and their own name), or all in the compact form.
SixMappings ==
    /\ DOMAIN root = {"servant", "pipeline"}
    /\ DOMAIN root.servant = {SERVANT_FILES[s][2] : s \in SERVANT_NAMES}
    /\ DOMAIN root.pipeline = {PIPELINE_FILES[p][2] : p \in DOMAIN PIPELINE_FILES}
    /\ \A d \in DOMAIN root : \A n \in DOMAIN root[d] : root[d][n].kind = "mapping"

ServantTag(s) == [version |-> 1, tool |-> s]
PipelineTag(p) == [version |-> 1, pipeline |-> p]

\* The part of a document that lies under the given tag's keys.
TagOf(doc, tag) == [k \in DOMAIN doc \cap DOMAIN tag |-> doc[k]]

IsFullRoot ==
    /\ SixMappings
    /\ \A s \in SERVANT_NAMES : TagOf(ServantDoc(s), ServantTag(s)) = ServantTag(s)
    /\ \A p \in DOMAIN PIPELINE_FILES : TagOf(PipelineDoc(p), PipelineTag(p)) = PipelineTag(p)

IsCompactRoot ==
    /\ SixMappings
    /\ \A s \in SERVANT_NAMES : TagOf(ServantDoc(s), ServantTag(s)) = EmptyMap
    /\ \A p \in DOMAIN PIPELINE_FILES : TagOf(PipelineDoc(p), PipelineTag(p)) = EmptyMap

IsFormRoot == IsFullRoot \/ IsCompactRoot

\* The same logical fields written in the other form.
Twin ==
    [servant |->
        [n \in DOMAIN root.servant |->
            Mapping(IF IsFullRoot
                    THEN [k \in DOMAIN root.servant[n].data \ {"version", "tool"} |->
                             root.servant[n].data[k]]
                    ELSE ServantTag(n[1]) @@ root.servant[n].data)],
     pipeline |->
        [n \in DOMAIN root.pipeline |->
            Mapping(IF IsFullRoot
                    THEN [k \in DOMAIN root.pipeline[n].data \ {"version", "pipeline"} |->
                             root.pipeline[n].data[k]]
                    ELSE PipelineTag(CHOOSE p \in DOMAIN PIPELINE_FILES : PIPELINE_FILES[p][2] = n)
                         @@ root.pipeline[n].data)]]

\* The command of the current state run on another root.
RunOn(r) ==
    IF args.command = "validate" THEN ValidateMain(r, manifest, args.print_choices)
    ELSE IF args.command = "resolve dispatch"
    THEN ResolveDispatchMain(r, manifest, args.plan_name, args.intent_default)
    ELSE IF args.command = "resolve plan" THEN ResolvePlanMain(r, args.profile, args.model_overrides)
    ELSE IF args.command = "validate v2" THEN ValidateV2Main(r, manifest, args.print_choices)
    ELSE ResolveV2Main(r, manifest, args.phase, args.method_id, args.step_id)

V1Command == args.command \in {"validate", "resolve dispatch", "resolve plan"}

\* Every required field of every file of the root is present.
RequiredFieldsPresent ==
    /\ \A s \in SERVANT_NAMES :
          {"default_model", "allowed_models", "wrapper_defaults"} \subseteq DOMAIN ServantDoc(s)
    /\ \A p \in DOMAIN PIPELINE_FILES : {"default_profile", "profiles"} \subseteq DOMAIN PipelineDoc(p)

\* The normalised nodes of the two forms, for the files that normalise.
SameNormalForm(eq(_, _)) ==
    /\ \A s \in SERVANT_NAMES :
          (LoadServantFile(root, s).ok /\ LoadServantFile(Twin, s).ok) =>
              eq(LoadServantFile(root, s).value, LoadServantFile(Twin, s).value)
    /\ \A p \in DOMAIN PIPELINE_FILES :
          (LoadPipelineFile(root, p).ok /\ LoadPipelineFile(Twin, p).ok) =>
              eq(LoadPipelineFile(root, p).value, LoadPipelineFile(Twin, p).value)

Identical(a, b) == a = b

\* Equal once an empty purpose_models or purpose_efforts is left out.
EqualUpToEmptyMaps(a, b) ==
    OmitEmpty(a, {"purpose_models", "purpose_efforts"}) = OmitEmpty(b, {"purpose_models", "purpose_efforts"})

LoadedV1 == load_and_validate_split_config(root)

\* C15: every rejection of a root by the v1 loader and validator is a
\* validation error carrying a path and a reason; a full-form file without a
\* required field is rejected that way, as the compact-form file is.  Stated
\* for the roots whose six files are readable mappings.
C15_RejectionsAreValidationErrors ==
    (Exited /\ V1Command /\ SixMappings /\ ~LoadedV1.ok) =>
        /\ IsValidationError(LoadedV1)
        /\ "path" \in DOMAIN LoadedV1
        /\ "error" \in DOMAIN LoadedV1

\* The compact-form root without codex's default_model is refused with a
\* validation error at servants.codex.default_model.
CompactMissingFieldRejected ==
    /\ Ran("validate") /\ IsCompactRoot
    /\ "default_model" \notin DOMAIN ServantDoc("codex")
    /\ OneErrorLine("CONFIG VALIDATION ERROR:")
    /\ out.stderr[1].error.path = <<"servants", "codex", "default_model">>

\* The full-form root without codex's default_model ends the validate
\* command with a KeyError traceback.
FullMissingFieldCrashes ==
    /\ Ran("validate") /\ IsFullRoot
    /\ "default_model" \notin DOMAIN ServantDoc("codex")
    /\ LoadedV1 = Raise("KeyError", "default_model")
    /\ out.stderr = Traceback(LoadedV1)

\* ------------------------------------------------------------------ unknown keys

\* The manifest document of the current run, empty when there is none.
ManifestDoc == IF manifest.kind = "mapping" THEN manifest.data ELSE EmptyMap

\* The profiles of the pipeline files of the root, with their pipeline.
ProfilesOfRoot ==
    UNION {{<<p, prof>> : prof \in Range(GetMap(PipelineDoc(p), "profiles"))} :
              p \in DOMAIN PIPELINE_FILES}

\* No mapping of the six files has a key outside its declared key set.
NoUnknownKeyInRoot ==
    /\ \A s \in SERVANT_NAMES :
          /\ DOMAIN ServantDoc(s) \subseteq SERVANT_KEYS \cup {"version", "tool"}
          /\ DOMAIN GetMap(ServantDoc(s), "wrapper_defaults") \subseteq WRAPPER_DEFAULT_KEYS[s]
          /\ DOMAIN GetMap(ServantDoc(s), "purpose_models") \subseteq PURPOSE_NAMES
          /\ DOMAIN GetMap(ServantDoc(s), "purpose_efforts") \subseteq PURPOSE_NAMES
    /\ \A p \in DOMAIN PIPELINE_FILES :
          DOMAIN PipelineDoc(p) \subseteq {"default_profile", "profiles", "version", "pipeline"}
    /\ \A pp \in ProfilesOfRoot :
          /\ DOMAIN pp[2] \subseteq PROFILE_KEYS
          /\ DOMAIN GetMap(pp[2], "flags") \subseteq PIPELINE_FLAGS[pp[1]]
          /\ DOMAIN GetMap(pp[2], "options") \subseteq DOMAIN PIPELINE_OPTIONS[pp[1]]

\* No routing mapping of the manifest has a key outside its declared key set.
NoUnknownKeyInManifest ==
    LET routing == GetMap(ManifestDoc, "routing")
        pipeline == GetMap(routing, "pipeline")
    IN  /\ DOMAIN routing \subseteq {"intent", "model", "pipeline"}
        /\ DOMAIN GetMap(routing, "model") \subseteq SERVANT_NAMES
        /\ DOMAIN pipeline \subseteq {"profile", "flags", "options"}
        /\ DOMAIN GetMap(pipeline, "flags")
              \subseteq UNION {PIPELINE_FLAGS[p] : p \in DOMAIN PIPELINE_FLAGS}
        /\ DOMAIN GetMap(pipeline, "options")
              \subseteq UNION {DOMAIN PIPELINE_OPTIONS[p] : p \in DOMAIN PIPELINE_OPTIONS}

\* C16: a v1 command succeeds only if no mapping of the config files
\* (servant node, wrapper_defaults, purpose_models, purpose_efforts, pipeline
\* node, profile node, profile flags and options of its pipeline) and no
\* routing mapping of the manifest it reads (routing, routing.model,
\* routing.pipeline, its flags and options) has a key outside its allowed set;
\* with one such key the command fails and prints nothing on standard output.
C16_UnknownKeysFailClosed ==
    /\ (Exited /\ V1Command /\ Accepted) => NoUnknownKeyInRoot
    /\ (Exited /\ args.command \in {"validate", "resolve dispatch"} /\ Accepted) => NoUnknownKeyInManifest
    /\ (Exited /\ V1Command /\ ~NoUnknownKeyInRoot) => (out.exit = 1 /\ out.stdout = << >>)

\* The validate command has refused a sound root because the manifest's
\* routing.pipeline.flags has an unknown key.
C16_Witness ==
    /\ Ran("validate")
    /\ root = BaseRoot
    /\ ManifestDoc = [routing |-> [pipeline |-> [flags |-> [bogus |-> TRUE]]]]
    /\ OneErrorLine("CONFIG VALIDATION ERROR:")
    /\ out.stderr[1].error.path = <<"routing", "pipeline", "flags">>
    /\ out.stderr[1].error.error = "unknown keys"

\* Refusals for a key of another pipeline in a profile's flags, and for a key
\* of another servant in wrapper_defaults.
ForeignFlagRefused ==
    /\ Ran("validate") /\ ~Accepted
    /\ "enable_stage2_codex"
          \in DOMAIN GetMap(GetMap(GetMap(PipelineDoc("impl"), "profiles"), "safe_impl"), "flags")
    /\ out.stderr[1].error.path = <<"pipelines", "impl", "profiles", "safe_impl", "flags">>

ForeignWrapperKeyRefused ==
    /\ Ran("resolve plan") /\ ~Accepted
    /\ "effort" \in DOMAIN GetMap(ServantDoc("copilot"), "wrapper_defaults")
    /\ out.stderr[1].error.path = <<"servants", "copilot", "wrapper_defaults">>

\* ------------------------------------------------------------------ files of a root

\* The file names of a directory of the root.
Listing(subdir) == DOMAIN GetMap(root, subdir)

V1Required ==
    [servant |-> {SERVANT_FILES[s][2] : s \in SERVANT_NAMES},
     pipeline |-> {PIPELINE_FILES[p][2] : p \in DOMAIN PIPELINE_FILES}]

V2Required ==
    [skills |-> {<<p, "yaml">> : p \in {"plan", "impl", "review"}},
     servants |-> {<<t, "yaml">> : t \in {"codex", "gemini", "copilot"}},
     policies |-> {<<"routing", "yaml">>, <<"review_parallel", "yaml">>, <<"web_evidence", "yaml">>}]

\* C17: the v1 and the v2 validate command accept a root only if each of its
\* config directories holds exactly its required files: a missing required
\* file and an additional file both make the command fail.
C17_ExactlyRequiredFiles ==
    /\ (Ran("validate") /\ Accepted) => \A d \in DOMAIN V1Required : Listing(d) = V1Required[d]
    /\ (Ran("validate v2") /\ Accepted) => \A d \in DOMAIN V2Required : Listing(d) = V2Required[d]

\* What the two validators do with missing and additional files.
MissingFileRejected ==
    /\ Ran("validate")
    /\ <<"gemini", "yaml">> \notin Listing("servant")
    /\ OneErrorLine("CONFIG VALIDATION ERROR:")
    /\ out.stderr[1].error.error = "file not found"

MissingFileRejectedV2 ==
    /\ Ran("validate v2")
    /\ <<"impl", "yaml">> \notin Listing("skills")
    /\ OneErrorLine("CONFIG V2 VALIDATION ERROR:")
    /\ out.stderr[1].error.error = "missing required files"

ExtraYamlRejectedV2 ==
    /\ Ran("validate v2")
    /\ <<"extra", "yaml">> \in Listing("servants")
    /\ OneErrorLine("CONFIG V2 VALIDATION ERROR:")
    /\ out.stderr[1].error.error = "unknown config files"

ExtraYamlAcceptedV1 ==
    /\ Ran("validate") /\ Accepted
    /\ <<"extra", "yaml">> \in Listing("servant")

ExtraTextFileAcceptedV2 ==
    /\ Ran("validate v2") /\ Accepted
    /\ <<"notes", "txt">> \in Listing("policies")

\* A missing required file is never accepted.
MissingFilesNeverAccepted ==
    /\ (Ran("validate") /\ Accepted) => \A d \in DOMAIN V1Required : V1Required[d] \subseteq Listing(d)
    /\ (Ran("validate v2") /\ Accepted) => \A d \in DOMAIN V2Required : V2Required[d] \subseteq Listing(d)

\* ------------------------------------------------------------------ how a run ends

PREFIXES ==
    {"CONFIG VALIDATION ERROR:", "CONFIG RESOLVE ERROR:", "CONFIG V2 VALIDATION ERROR:",
     "CONFIG V2 RESOLVE ERROR:"}

\* One result on standard output, nothing on standard error, exit code 0.
EndsWithResult == out.exit = 0 /\ Len(out.stdout) = 1 /\ out.stderr = << >>

\* One prefixed line on standard error, nothing on standard output, exit code 1.
EndsWithOneErrorLine == \E prefix \in PREFIXES : OneErrorLine(prefix)

\* A full-form file of the root lacks a required field (the KeyError of the normalisers).
FullFormFieldMissing == IsFullRoot /\ ~RequiredFieldsPresent

\* C18: every run of the five commands ends with its result on standard
\* output and exit code 0, or with exactly one prefixed error line on standard
\* error, nothing on standard output and exit code 1, also when a config file
\* or the manifest is not parseable YAML.  Stated for the roots whose
\* full-form files have their required fields.
C18_OneErrorLineOrResult ==
    (Exited /\ ~FullFormFieldMissing) => (EndsWithResult \/ EndsWithOneErrorLine)

\* What the commands do with a file that is not parseable YAML.
UnparseableManifestCrashesDispatch ==
    /\ Ran("resolve dispatch")
    /\ root = BaseRoot
    /\ manifest = Unparseable
    /\ out.exit = 1
    /\ out.stderr = Traceback(Raise("YAMLError", "YAML parse failed"))

UnparseableConfigCrashesPlan ==
    /\ Ran("resolve plan")
    /\ FileAt(root, "servant", <<"copilot", "yaml">>) = Unparseable
    /\ out.stderr = Traceback(Raise("YAMLError", "YAML parse failed"))

UnparseableManifestCrashesResolveV2 ==
    /\ Ran("resolve v2")
    /\ root = BaseRootV2
    /\ manifest = Unparseable
    /\ out.stderr = Traceback(Raise("YAMLError", "YAML parse failed"))

UnparseableManifestCaughtByValidate ==
    /\ Ran("validate")
    /\ root = BaseRoot
    /\ manifest = Unparseable
    /\ OneErrorLine("CONFIG VALIDATION ERROR:")

\* The two validate commands end as claimed on every root without a missing
\* full-form field; every run that succeeds ends with its result and exit
\* code 0; every failing run has exit code 1 and nothing on standard output.
ValidateCommandsEndAsClaimed ==
    /\ (Exited /\ args.command \in {"validate", "validate v2"} /\ ~FullFormFieldMissing) =>
          (EndsWithResult \/ EndsWithOneErrorLine)
    /\ (Exited /\ Accepted) => EndsWithResult
    /\ (Exited /\ ~Accepted) => (out.exit = 1 /\ out.stdout = << >>)

\* ------------------------------------------------------------------ dispatch: stage models and efforts

\* The selected profile of the returned dispatch plan, as the config declares it.
SelectedProfile == cfg.pipelines[result.pipeline_group].profiles[result.profile]

\* The purpose the resolver derives for a stage of the returned plan.
PurposeOf(s) == _dispatch_stage_purpose(s, result.pipeline_group, result.options)

\* The model of a stage below the manifest level: the profile's entry, else
\* the servant's purpose entry, else the servant's default.
ModelBelowManifest(s) ==
    LET tool == Head(s)
        stage_models == GetMap(SelectedProfile, "stage_models")
        purpose_models == GetMap(cfg.servants[tool], "purpose_models")
    IN  IF s \in DOMAIN stage_models THEN stage_models[s]
        ELSE IF PurposeOf(s) \in DOMAIN purpose_models THEN purpose_models[PurposeOf(s)]
        ELSE cfg.servants[tool].default_model

\* C19: in a returned dispatch plan, a stage whose servant has no
\* routing.model entry in the manifest gets the selected profile's
\* stage_models entry for the stage, else the servant's purpose_models entry
\* for the stage's purpose, else the servant's default_model.
C19_ModelPrecedenceBelowManifest ==
    pc = "done" =>
        \A s \in PlanStages :
            Head(s) \notin DOMAIN RoutingModel => result.stage_models[s] = ModelBelowManifest(s)

\* A plan without routing.model whose codex_review stage has a profile entry
\* (c4), a purpose entry (c2) and a default (c1), and gets c4, and whose
\* gemini stage falls through to the default.
C19_Witness ==
    /\ pc = "done"
    /\ RoutingModel = EmptyMap
    /\ codex_review \in PlanStages
    /\ Get(GetMap(SelectedProfile, "stage_models"), codex_review) = "c4"
    /\ PurposeOf(codex_review) = "review"
    /\ Get(GetMap(cfg.servants.codex, "purpose_models"), "review") = "c2"
    /\ cfg.servants.codex.default_model = "c1"
    /\ result.stage_models[codex_review] = "c4"

\* The purpose level and the default level are reached as well.
PurposeLevelUsed ==
    /\ pc = "done"
    /\ RoutingModel = EmptyMap
    /\ codex_review \in PlanStages
    /\ codex_review \notin DOMAIN GetMap(SelectedProfile, "stage_models")
    /\ result.stage_models[codex_review] = "c2"

DefaultLevelUsed ==
    /\ pc = "done"
    /\ RoutingModel = EmptyMap
    /\ \E s \in PlanStages :
          /\ Head(s) = "codex"
          /\ s \notin DOMAIN GetMap(SelectedProfile, "stage_models")
          /\ PurposeOf(s) \notin DOMAIN GetMap(cfg.servants.codex, "purpose_models")
          /\ GetMap(cfg.servants.codex, "purpose_models") # EmptyMap
          /\ result.stage_models[s] = "c1"

\* The effort of a codex stage: the profile's entry, else codex's purpose
\* entry, else codex's wrapper default.
ExpectedEffort(s) ==
    LET stage_efforts == GetMap(SelectedProfile, "stage_efforts")
        purpose_efforts == GetMap(cfg.servants.codex, "purpose_efforts")
    IN  IF s \in DOMAIN stage_efforts THEN stage_efforts[s]
        ELSE IF PurposeOf(s) \in DOMAIN purpose_efforts THEN purpose_efforts[PurposeOf(s)]
        ELSE cfg.servants.codex.wrapper_defaults.effort

\* C20: in a returned dispatch plan, stage_efforts has an entry for exactly
\* the codex stages of stage_plan; each entry is the selected profile's
\* stage_efforts value for the stage, else codex's purpose_efforts value for
\* the stage's purpose, else codex's wrapper default effort, and is one of
\* low, medium, high, xhigh.
C20_CodexStageEfforts ==
    pc = "done" =>
        /\ DOMAIN result.stage_efforts = {s \in PlanStages : Head(s) = "codex"}
        /\ \A s \in DOMAIN result.stage_efforts :
              /\ result.stage_efforts[s] = ExpectedEffort(s)
              /\ result.stage_efforts[s] \in {"low", "medium", "high", "xhigh"}

\* A plan with a gemini stage and a codex_review stage whose profile effort
\* (xhigh), purpose effort (high) and wrapper default (medium) all differ.
C20_Witness ==
    /\ pc = "done"
    /\ PlanStages = {codex_review, gemini_brief}
    /\ Get(GetMap(SelectedProfile, "stage_efforts"), codex_review) = "xhigh"
    /\ PurposeOf(codex_review) = "review"
    /\ Get(GetMap(cfg.servants.codex, "purpose_efforts"), "review") = "high"
    /\ cfg.servants.codex.wrapper_defaults.effort = "medium"
    /\ result.stage_efforts = (codex_review :> "xhigh")

PurposeEffortUsed ==
    /\ pc = "done"
    /\ codex_review \in PlanStages
    /\ codex_review \notin DOMAIN GetMap(SelectedProfile, "stage_efforts")
    /\ result.stage_efforts[codex_review] = "high"

DefaultEffortUsed ==
    /\ pc = "done"
    /\ GetMap(cfg.servants.codex, "purpose_efforts") # EmptyMap
    /\ \E s \in DOMAIN result.stage_efforts : result.stage_efforts[s] = "medium"

\* ------------------------------------------------------------------ stage purposes

\* The roles of the candidate stages: the roles the classifier names, roles
\* that contain one of its words, and roles it does not know.
PurposeRoles ==
    { <<"impl">>, <<"test", "impl">>, <<"verify">>, <<"static", "verify">>, <<"review">>,
      <<"cross", "review">>, <<"reviewer">>, <<"review", "impl">>, <<"runbook">>, <<"brief">>,
      <<"test", "design">>, <<"debrief">>, <<"preverify">>, <<"design">>, <<"test">> }

PurposeStages == {<<t>> \o r : t \in SERVANT_NAMES, r \in PurposeRoles}

PurposeOptions ==
    {EmptyMap, [impl_mode |-> "safe"], [impl_mode |-> "one_shot"], [review_mode |-> "cross"],
     [impl_mode |-> "one_shot", timeout_mode |-> "wait_done"]}

\* One call of _dispatch_stage_purpose (resolve_dispatch line 293).
ClassifyStage ==
    /\ pc = "purpose"
    /\ result' = Val(_dispatch_stage_purpose(args.stage, args.pipeline, args.options))
    /\ pc' = "classified"
    /\ UNCHANGED <<cfg, manifest, args, filt, cfg2, overrides2, args2, result2, root, out>>

InitPurpose ==
    /\ pc = "purpose"
    /\ args \in [stage : PurposeStages, pipeline : {"impl", "review"}, options : PurposeOptions]
    /\ result = NoValue
    /\ cfg = EmptyMap
    /\ manifest = EmptyMap
    /\ filt = IdleFilter
    /\ cfg2 = EmptyMap
    /\ overrides2 = EmptyMap
    /\ args2 = EmptyMap
    /\ result2 = NoValue
    /\ root = EmptyMap
    /\ out = NoValue

NextPurpose == ClassifyStage

SpecPurpose == InitPurpose /\ [][NextPurpose]_vars

\* The role of the classified stage, and whether it contains the word review.
ClassifiedRole == Tail(args.stage)
RoleContainsReview ==
    \E i \in DOMAIN ClassifiedRole : ClassifiedRole[i] \in {"review", "reviewer"}

OneShotImplRun == args.pipeline = "impl" /\ Get(args.options, "impl_mode") = "one_shot"

\* C21: the purpose of a dispatch stage is impl for roles impl and test_impl,
\* verify for verify and static_verify, review for a role containing
\* "review", one_shot for runbook, and plan for brief and test_design unless
\* the pipeline is impl and impl_mode is one_shot, where these two roles are
\* one_shot; one_shot is given to no other role and never because of
\* impl_mode in the review pipeline.
C21_StagePurpose ==
    pc = "classified" =>
        /\ ClassifiedRole \in {<<"impl">>, <<"test", "impl">>} => result.value = "impl"
        /\ ClassifiedRole \in {<<"verify">>, <<"static", "verify">>} => result.value = "verify"
        /\ RoleContainsReview => result.value = "review"
        /\ ClassifiedRole = <<"runbook">> => result.value = "one_shot"
        /\ ClassifiedRole \in {<<"brief">>, <<"test", "design">>} =>
              result.value = (IF OneShotImplRun THEN "one_shot" ELSE "plan")
        /\ result.value = "one_shot" =>
              \/ ClassifiedRole = <<"runbook">>
              \/ ClassifiedRole \in {<<"brief">>, <<"test", "design">>} /\ OneShotImplRun

\* A test_design stage classified one_shot in the impl pipeline under impl_mode one_shot.
C21_Witness ==
    /\ pc = "classified"
    /\ args.stage = <<"codex", "test", "design">>
    /\ args.pipeline = "impl"
    /\ args.options = [impl_mode |-> "one_shot"]
    /\ result.value = "one_shot"

\* The same stage and option in the review pipeline stay plan.
ReviewPipelineKeepsPlan ==
    /\ pc = "classified"
    /\ args.stage = <<"gemini", "brief">>
    /\ args.pipeline = "review"
    /\ args.options = [impl_mode |-> "one_shot"]
    /\ result.value = "plan"

\* ------------------------------------------------------------------ properties of routing

\* The resolver has run on a validated config and a validated manifest.
Resolved == pc \in {"done", "rejected_plan"}

\* The pipeline the run resolves to (None when the intent names no profile).
RunPipeline ==
    _find_pipeline_for_profile_name(cfg, RequestedIntent(manifest, args.plan_name, args.intent_default))

\* The manifest carries a flag or an option of another pipeline's vocabulary.
ForeignFlag == RunPipeline # None /\ ~(DOMAIN RoutingFlags \subseteq PIPELINE_FLAGS[RunPipeline])
ForeignOption ==
    RunPipeline # None /\ ~(DOMAIN RoutingOptions \subseteq DOMAIN PIPELINE_OPTIONS[RunPipeline])

\* The profile the run starts from: the manifest's override, else the intent.
StartProfile ==
    Or(Get(RoutingPipeline, "profile"), RequestedIntent(manifest, args.plan_name, args.intent_default))

UnsupportedErrors == {"pipeline does not support flags", "pipeline does not support options"}

\* C22 as stated: a validated manifest with a flag or option key outside the
\* selected pipeline's vocabulary makes resolve_dispatch raise the
\* 'does not support flags/options' error.
C22_ForeignKeysRaiseUnsupported ==
    (Resolved /\ (ForeignFlag \/ ForeignOption)) =>
        /\ ~result.ok
        /\ result.error \in UnsupportedErrors

\* C22 amended: such a manifest never yields a plan; the error is 'does not
\* support flags' for a foreign flag, else 'does not support options',
\* whenever the selected pipeline defines the profile the run starts from (the
\* profile lookup comes first and raises its own validation error otherwise).
C22_ForeignKeysRefused ==
    (Resolved /\ (ForeignFlag \/ ForeignOption)) =>
        /\ ~result.ok
        /\ StartProfile \in DOMAIN cfg.pipelines[RunPipeline].profiles =>
              result.error = (IF ForeignFlag THEN "pipeline does not support flags"
                              ELSE "pipeline does not support options")
        /\ StartProfile \notin DOMAIN cfg.pipelines[RunPipeline].profiles =>
              result.error = "pipeline does not define profile"

\* A plan-pipeline option in the manifest of an impl run is refused.
C22_Witness ==
    /\ pc = "rejected_plan"
    /\ RunPipeline = "impl"
    /\ "consolidate_mode" \in DOMAIN RoutingOptions
    /\ result.error = "pipeline does not support options"

\* A plan-pipeline flag, and the impl flag enable_brief in a review run, are refused.
PlanFlagRefused ==
    /\ pc = "rejected_plan"
    /\ "enable_stage2_codex" \in DOMAIN RoutingFlags
    /\ result.error = "pipeline does not support flags"

ImplFlagRefusedInReview ==
    /\ pc = "rejected_plan"
    /\ RunPipeline = "review"
    /\ "enable_brief" \in DOMAIN RoutingFlags
    /\ result.error = "pipeline does not support flags"

\* A review run whose manifest carries impl_mode and the profile override
\* one_shot_impl fails at the profile lookup.
ForeignOptionBehindProfileLookup ==
    /\ pc = "rejected_plan"
    /\ RunPipeline = "review"
    /\ "impl_mode" \in DOMAIN RoutingOptions
    /\ result.error = "pipeline does not define profile"

\* The intent the stated rule gives: the plan name unless it is auto, else the
\* manifest's routing.intent when present and non-empty, else the default.
RuleIntent ==
    IF args.plan_name # "auto" THEN args.plan_name
    ELSE IF "intent" \in DOMAIN Routing /\ Routing.intent # "" THEN Routing.intent
    ELSE args.intent_default

IntentIsProfileName ==
    \/ RuleIntent \in DOMAIN cfg.pipelines.impl.profiles
    \/ RuleIntent \in DOMAIN cfg.pipelines.review.profiles

\* C23: the plan's intent is the plan name when that is not auto, else the
\* manifest's non-empty routing.intent, else the default intent; an intent
\* that names no profile of the impl or review pipeline raises the
\* 'routing.intent is not defined' validation error and yields no plan.
C23_IntentSelection ==
    Resolved =>
        /\ result.ok => result.intent = RuleIntent
        /\ ~IntentIsProfileName =>
              /\ ~result.ok
              /\ result.error = "routing.intent is not defined in pipelines.impl/review"
        /\ (~result.ok /\ result.error = "routing.intent is not defined in pipelines.impl/review") =>
              ~IntentIsProfileName

\* A plan name other than auto overrides a different manifest intent.
C23_Witness ==
    /\ pc = "done"
    /\ args.plan_name = "codex_only"
    /\ Get(Routing, "intent") = "safe_impl"
    /\ result.intent = "codex_only"
    /\ result.pipeline_group = "review"

\* With auto the manifest's intent wins over the default; an empty manifest
\* intent falls back to the default; an unknown intent is refused.
ManifestIntentUsed ==
    /\ pc = "done"
    /\ args.plan_name = "auto"
    /\ args.intent_default = "safe_impl"
    /\ result.intent = "codex_only"

EmptyIntentFallsBack ==
    /\ pc = "done"
    /\ Get(Routing, "intent") = ""
    /\ result.intent = "safe_impl"

UnknownManifestIntentRefused ==
    /\ pc = "rejected_plan"
    /\ args.intent_default = "safe_impl"
    /\ Get(Routing, "intent") = "nightly"
    /\ result.error = "routing.intent is not defined in pipelines.impl/review"

UnknownDefaultIntentRefused ==
    /\ pc = "rejected_plan"
    /\ "intent" \notin DOMAIN Routing
    /\ args.intent_default = "nightly"
    /\ result.error = "routing.intent is not defined in pipelines.impl/review"

\* The manifest's profile override (None when it has none).
ProfileOverride == Get(RoutingPipeline, "profile")

\* The run was refused because of the profile override.
RejectedForProfile ==
    \/ pc = "rejected_manifest" /\ result.error = "profile is not defined in the intent's pipeline"
    \/ pc = "rejected_plan" /\ result.error = "pipeline does not define profile"

\* Validation and resolution of the manifest are over.
Settled == pc \in {"rejected_manifest", "rejected_plan", "done"}

\* C24: the profile override is checked against the pipeline the run resolves
\* to: an override defined in that pipeline is never rejected on account of
\* the profile, and an override not defined there is always rejected.
C24_OverrideCheckedAgainstRunPipeline ==
    (Settled /\ Truthy(ProfileOverride) /\ RunPipeline # None) =>
        IF ProfileOverride \in DOMAIN cfg.pipelines[RunPipeline].profiles
        THEN ~RejectedForProfile
        ELSE pc # "done"

\* The half of C24 that holds: an override the run's pipeline does not define never yields a plan.
UndefinedOverrideAlwaysRejected ==
    (Settled /\ Truthy(ProfileOverride) /\ RunPipeline # None
        /\ ProfileOverride \notin DOMAIN cfg.pipelines[RunPipeline].profiles) => pc # "done"

\* Plan name one_shot_impl, manifest intent codex_only, override one_shot_impl:
\* the run's pipeline is impl and defines the override, but validation
\* compares it with the review pipeline and refuses the manifest.
OverrideRefusedAgainstManifestIntent ==
    /\ pc = "rejected_manifest"
    /\ args.plan_name = "one_shot_impl"
    /\ Get(Routing, "intent") = "codex_only"
    /\ ProfileOverride = "one_shot_impl"
    /\ RunPipeline = "impl"
    /\ "one_shot_impl" \in DOMAIN cfg.pipelines.impl.profiles
    /\ result.error = "profile is not defined in the intent's pipeline"

\* An override defined in the run's pipeline is accepted and resolved.
OverrideAccepted ==
    /\ pc = "done"
    /\ ProfileOverride = "one_shot_impl"
    /\ result.pipeline_group = "impl"

\* The profile names that both the impl and the review pipeline define.
SharedProfileNames == DOMAIN cfg.pipelines.impl.profiles \cap DOMAIN cfg.pipelines.review.profiles

\* The config has passed validate_runtime_config_dict.
ConfigAccepted == pc \notin {"start", "rejected_config"}

\* C25: no accepted config defines the same profile name in both the impl and
\* the review pipeline.
C25_ProfileNamesUnique == ConfigAccepted => SharedProfileNames = {}

\* A profile name of both pipelines resolves to the impl pipeline, the first of the search.
SharedNameResolvedByOrder ==
    /\ pc = "done"
    /\ result.intent = "codex_only"
    /\ result.intent \in SharedProfileNames
    /\ result.pipeline_group = "impl"
    /\ result.stage_plan = <<codex_impl, codex_verify>>

\* Whenever a run's intent names one pipeline's profile only, the plan belongs to that pipeline.
UniqueNameSelectsItsPipeline ==
    (pc = "done" /\ result.intent \notin SharedProfileNames) =>
        result.intent \in DOMAIN cfg.pipelines[result.pipeline_group].profiles

\* ------------------------------------------------------------------ properties of the resolved steps

\* The steps of the method the v2 result names, as the skill file lists them.
SelectedMethodSteps == cfg2.skills[args2.phase].methods[result2.selected_method_id].steps

\* The steps of the method the precedence selects.
ExpectedMethodSteps == GetList(cfg2.skills[args2.phase].methods[ExpectedMethod], "steps")

StepIdGiven == args2.step_id # None /\ args2.step_id # ""

\* C26: without a step id resolved_steps is the selected method's steps in
\* order; with a step id that is one of them it is that step alone; a step
\* id that is not one of them is refused; the keys of step_agent_model_map
\* are the resolved steps.
C26_ResolvedSteps ==
    /\ pc = "done" =>
          /\ ~StepIdGiven => result2.resolved_steps = SelectedMethodSteps
          /\ StepIdGiven =>
                /\ result2.resolved_steps = <<args2.step_id>>
                /\ \E i \in DOMAIN SelectedMethodSteps : SelectedMethodSteps[i] = args2.step_id
          /\ DOMAIN result2.step_agent_model_map = Range(result2.resolved_steps)
    /\ (ResolvedV2 /\ ExpectedMethodUsable /\ StepIdGiven
            /\ ExpectedMethodSteps # << >> /\ args2.step_id \notin Range(ExpectedMethodSteps)) =>
          /\ ~result2.ok
          /\ result2.error = "step_id is not part of resolved method"

\* One step of a method with several steps was resolved alone.
C26_Witness ==
    /\ pc = "done"
    /\ args2.step_id = "s1"
    /\ Len(SelectedMethodSteps) > 1
    /\ result2.resolved_steps = <<"s1">>
    /\ DOMAIN result2.step_agent_model_map = {"s1"}

\* All steps of a method with several steps were resolved in order.
AllStepsResolved ==
    /\ pc = "done"
    /\ args2.step_id = None
    /\ Len(result2.resolved_steps) > 1
    /\ result2.resolved_steps = SelectedMethodSteps

\* A step that the phase defines but the selected method does not list is
\* refused, and so is a step id nobody defines.
DefinedStepOfOtherMethodRefused ==
    /\ pc = "rejected_plan"
    /\ args2.step_id \in DOMAIN cfg2.skills[args2.phase].step_defaults
    /\ result2.error = "step_id is not part of resolved method"

UnknownStepRefused ==
    /\ pc = "rejected_plan"
    /\ args2.step_id = "s9"
    /\ result2.error = "step_id is not part of resolved method"

\* ------------------------------------------------------------------ resolvers called twice

\* The inputs a resolver is called on: a validated config and, for the two
\* manifest-driven resolvers, an accepted manifest.
ReadyDispatchConfigs ==
    {c \in DispatchConfigs :
        /\ c.pipelines.impl \in {FixedImplPipeline, SharedNameImplPipeline}
        /\ validate_runtime_config_dict(c).ok}

ReadyPlanConfigs == {c \in PlanConfigs : validate_runtime_config_dict(c).ok}

ReadyConfigsV2 == {c \in ConfigsV2 : load_and_validate_v2_config(c).ok}

\* Faulty variant of ResolveDispatchCall: the resolver takes routing.model out
\* of the manifest it was given (pop instead of get).
ResolveDispatchCall_consuming ==
    /\ pc \in {"dispatch_ready", "dispatch_once"}
    /\ result' = resolve_dispatch(cfg, manifest, args.plan_name, args.intent_default)
    /\ pc' = IF pc = "dispatch_ready" THEN "dispatch_once" ELSE "dispatch_twice"
    /\ manifest' = IF "model" \in DOMAIN GetMap(manifest, "routing")
                   THEN [manifest EXCEPT !.routing = [k \in DOMAIN @ \ {"model"} |-> @[k]]]
                   ELSE manifest
    /\ UNCHANGED <<cfg, args, filt, cfg2, overrides2, args2, result2, root, out>>

\* One call of resolve_dispatch (lines 183-346): it reads cfg and manifest, builds
\* its plan in fresh dicts and lists, and assigns to no part of its arguments.
ResolveDispatchCall ==
    /\ pc \in {"dispatch_ready", "dispatch_once"}
    /\ result' = resolve_dispatch(cfg, manifest, args.plan_name, args.intent_default)
    /\ pc' = IF pc = "dispatch_ready" THEN "dispatch_once" ELSE "dispatch_twice"
    /\ UNCHANGED <<cfg, manifest, args, filt, cfg2, overrides2, args2, result2, root, out>>

\* One call of resolve_plan_pipeline (lines 349-487).
ResolvePlanCall ==
    /\ pc \in {"plan_ready", "plan_once"}
    /\ result' = resolve_plan_pipeline(cfg, args.profile, args.model_overrides)
    /\ pc' = IF pc = "plan_ready" THEN "plan_once" ELSE "plan_twice"
    /\ UNCHANGED <<cfg, manifest, args, filt, cfg2, overrides2, args2, result2, root, out>>

\* One call of resolve_v2 (lines 107-152).
ResolveV2Call ==
    /\ pc \in {"v2_ready", "v2_once"}
    /\ result2' = resolve_v2(cfg2, args2.phase, overrides2, args2.method_id, args2.step_id)
    /\ pc' = IF pc = "v2_ready" THEN "v2_once" ELSE "v2_twice"
    /\ UNCHANGED <<cfg, manifest, args, result, filt, cfg2, overrides2, args2, root, out>>

InitTwice ==
    /\ filt = IdleFilter
    /\ root = EmptyMap
    /\ out = NoValue
    /\ result = NoValue
    /\ result2 = NoValue
    /\ \/ /\ pc = "dispatch_ready"
          /\ cfg \in ReadyDispatchConfigs
          /\ manifest \in Manifests
          /\ validate_manifest_extensions(cfg, manifest).ok
          /\ args \in DispatchArgs
          /\ cfg2 = EmptyMap
          /\ overrides2 = EmptyMap
          /\ args2 = EmptyMap
       \/ /\ pc = "plan_ready"
          /\ cfg \in ReadyPlanConfigs
          /\ manifest = EmptyMap
          /\ args \in PlanArgs
          /\ cfg2 = EmptyMap
          /\ overrides2 = EmptyMap
          /\ args2 = EmptyMap
       \/ /\ pc = "v2_ready"
          /\ cfg2 \in ReadyConfigsV2
          /\ args2 \in ArgsV2
          /\ manifest \in {load_manifest_if_present(args2.manifest, doc) :
                              doc \in IF args2.manifest = None THEN {EmptyMap} ELSE ManifestsV2}
          /\ parse_manifest_v2_overrides(cfg2, manifest).ok
          /\ overrides2 = parse_manifest_v2_overrides(cfg2, manifest).value
          /\ cfg = EmptyMap
          /\ args = EmptyMap

NextTwice == ResolveDispatchCall \/ ResolvePlanCall \/ ResolveV2Call

SpecTwice == InitTwice /\ [][NextTwice]_vars

PlanResolvedTwice == pc = "plan_twice" /\ result.ok
V2ResolvedTwice == pc = "v2_twice" /\ result2.ok /\ overrides2 # EmptyMap
DispatchRaisedTwice == pc = "dispatch_twice" /\ ~result.ok
V2RaisedTwice == pc = "v2_twice" /\ ~result2.ok

\* ------------------------------------------------------------------ properties of the reselected profile

\* C28: in every returned dispatch plan the profile agrees with the plan's
\* options: impl_mode safe goes with safe_impl and one_shot with one_shot_impl
\* in the impl pipeline, review_mode codex_only goes with codex_only and cross
\* with review_cross in the review pipeline.
C28_ProfileAgreesWithOptions ==
    pc = "done" =>
        /\ (result.pipeline_group = "impl" /\ "impl_mode" \in DOMAIN result.options) =>
              result.profile = ModeProfile[result.options.impl_mode]
        /\ (result.pipeline_group = "review" /\ "review_mode" \in DOMAIN result.options) =>
              result.profile = ModeProfile[result.options.review_mode]

\* The half of C28 that holds: a mode option set by the manifest agrees with the returned profile.
ManifestModeAgreesWithProfile ==
    pc = "done" =>
        /\ (result.pipeline_group = "impl" /\ "impl_mode" \in DOMAIN RoutingOptions) =>
              /\ result.options.impl_mode = RoutingOptions.impl_mode
              /\ result.profile = ModeProfile[RoutingOptions.impl_mode]
        /\ (result.pipeline_group = "review" /\ "review_mode" \in DOMAIN RoutingOptions) =>
              /\ result.options.review_mode = RoutingOptions.review_mode
              /\ result.profile = ModeProfile[RoutingOptions.review_mode]

\* safe_impl's own impl_mode one_shot reselects one_shot_impl, whose own
\* impl_mode is safe: the plan carries profile one_shot_impl with impl_mode safe.
ReselectedProfileDisagrees ==
    /\ pc = "done"
    /\ result.intent = "safe_impl"
    /\ RoutingPipeline = EmptyMap
    /\ Get(GetMap(cfg.pipelines.impl.profiles.safe_impl, "options"), "impl_mode") = "one_shot"
    /\ result.profile = "one_shot_impl"
    /\ result.options.impl_mode = "safe"

\* The options of the first merge: the starting profile's own options overlaid
\* with the manifest's.
StartOptions ==
    LET own == GetMap(cfg.pipelines[RunPipeline].profiles[StartProfile], "options")
    IN  [k \in DOMAIN own \cup DOMAIN RoutingOptions |->
            IF k \in DOMAIN RoutingOptions THEN RoutingOptions[k] ELSE own[k]]

\* The run returned a plan after reselecting one_shot_impl on impl_mode one_shot.
ReselectedOneShot ==
    /\ pc = "done"
    /\ result.pipeline_group = "impl"
    /\ StartProfile # "one_shot_impl"
    /\ Get(StartOptions, "impl_mode") = "one_shot"
    /\ result.profile = "one_shot_impl"

BriefOrTestDesign(s) == Tail(s) \in {<<"brief">>, <<"test", "design">>}

\* C29: after one_shot_impl was reselected on impl_mode one_shot, every brief
\* or test_design stage of the plan takes its model from the one_shot entry of
\* its servant's purpose_models, and a codex stage its effort from the
\* one_shot entry of purpose_efforts, unless the manifest or the profile
\* overrides them.
C29_ReselectedStagesAreOneShot ==
    ReselectedOneShot =>
        \A s \in PlanStages :
            BriefOrTestDesign(s) =>
                LET tool == Head(s)
                    purpose_models == GetMap(cfg.servants[tool], "purpose_models")
                    purpose_efforts == GetMap(cfg.servants.codex, "purpose_efforts")
                IN  /\ ( /\ tool \notin DOMAIN RoutingModel
                         /\ s \notin DOMAIN GetMap(SelectedProfile, "stage_models")
                         /\ "one_shot" \in DOMAIN purpose_models )
                       => result.stage_models[s] = purpose_models.one_shot
                    /\ ( /\ tool = "codex"
                         /\ s \notin DOMAIN GetMap(SelectedProfile, "stage_efforts")
                         /\ "one_shot" \in DOMAIN purpose_efforts )
                       => result.stage_efforts[s] = purpose_efforts.one_shot

\* The half of C29 that holds: when the manifest sets impl_mode one_shot the
\* brief and test_design stages are classified one_shot.
ManifestOneShotStagesAreOneShot ==
    (ReselectedOneShot /\ Get(RoutingOptions, "impl_mode") = "one_shot") =>
        \A s \in PlanStages :
            (BriefOrTestDesign(s) /\ Head(s) \notin DOMAIN RoutingModel
                /\ s \notin DOMAIN GetMap(SelectedProfile, "stage_models")
                /\ "one_shot" \in DOMAIN GetMap(cfg.servants[Head(s)], "purpose_models"))
            => result.stage_models[s] = cfg.servants[Head(s)].purpose_models.one_shot

\* safe_impl's own impl_mode one_shot reselects one_shot_impl, but the plan's
\* codex_brief stage is served by the plan purpose, not the one_shot purpose.
ReselectedBriefUsesPlanPurpose ==
    /\ ReselectedOneShot
    /\ RoutingPipeline = EmptyMap
    /\ RoutingModel = EmptyMap
    /\ codex_brief \in PlanStages
    /\ GetMap(cfg.servants.codex, "purpose_models") = [review |-> "c2", plan |-> "c2", one_shot |-> "c3"]
    /\ result.stage_models[codex_brief] = "c2"

\* With impl_mode one_shot from the manifest a brief stage is served by the one_shot purpose.
ManifestOneShotBriefServed ==
    /\ ReselectedOneShot
    /\ Get(RoutingOptions, "impl_mode") = "one_shot"
    /\ \E s \in PlanStages :
          /\ BriefOrTestDesign(s)
          /\ Get(GetMap(cfg.servants[Head(s)], "purpose_models"), "one_shot") = result.stage_models[s]
          /\ Get(GetMap(cfg.servants[Head(s)], "purpose_models"), "plan") # result.stage_models[s]

\* ------------------------------------------------------------------ properties of the step tools

\* The tools the selected method of the v2 result allows.
SelectedAllowedTools == Range(cfg2.skills[args2.phase].methods[result2.selected_method_id].allowed_tools)

\* C30: in every v2 resolution each resolved step's tool is one of the
\* selected method's allowed_tools.
C30_StepToolsAllowed ==
    pc = "done" =>
        \A sid \in DOMAIN result2.step_agent_model_map :
            result2.step_agent_model_map[sid].tool \in SelectedAllowedTools

\* What the code does guarantee: the tool of a resolved step is a known tool.
StepToolsAreTools ==
    pc = "done" =>
        \A sid \in DOMAIN result2.step_agent_model_map :
            InList(result2.step_agent_model_map[sid].tool, TOOLS)

\* A manifest step override names copilot for a step of a method that allows
\* codex and gemini only, and the step is resolved with copilot.
StepResolvedWithToolNotAllowed ==
    /\ pc = "done"
    /\ SelectedAllowedTools = {"codex", "gemini"}
    /\ "s1" \in DOMAIN result2.step_agent_model_map
    /\ result2.step_agent_model_map.s1.tool = "copilot"
    /\ result2.applied_overrides.manifest.step_overrides.s1.tool = "copilot"

====
